---- MODULE Spec2Model ----
(***************************************************************************)
(* Model of the search pipeline of app.py (trending-shorts-generator):     *)
(* the metric functions, the duration codec, the idea angle, the three     *)
(* cached gateway calls, the keyword loop that accumulates all_rows, the   *)
(* ranking of the rows, and the API key and the results held in            *)
(* st.session_state across the script runs of a session.                   *)
(*                                                                         *)
(* Units.  The rounded floats of a row are scaled integers:                *)
(*   Engagement Rate (%)  in hundredths of a percent (round(x, 2)),        *)
(*   Virality Score       in tenths (round(x, 1)),                         *)
(*   both computed in emulated doubles before the rounding,                *)
(*   min_engagement       in hundredths of a percent,                      *)
(*   instants (now, publishedAt) in seconds.                               *)
(* A string is a sequence of one-character strings; a character outside    *)
(* ASCII is written as its code point, "U+0663".                           *)
(***************************************************************************)
EXTENDS Integers, Sequences, FiniteSets, TLC

VARIABLES
    keywords,        \* the keyword list of the run (app.py:546-549)
    config,          \* the sidebar's filters and search settings
    platform,        \* what the remote platform may answer in this run
    now,             \* the clock as the run last read it, in seconds
    start_date,      \* the date floor computed once per run (app.py:552)
    pc,              \* position in the run
    idx,             \* 1-based position in keywords (enumerate's idx + 1)
    all_rows,        \* app.py:559
    seen_video_ids,  \* app.py:560
    errors,          \* app.py:561
    videos,          \* search_data["items"] of the current keyword
    video_ids,       \* app.py:579
    channel_ids,     \* app.py:580
    vid_details,     \* app.py:589, NoCall before the call returned
    vid_map,         \* app.py:596
    chan_map,        \* app.py:597
    v_idx,           \* 1-based position of "for v in videos" (app.py:600)
    search_cache,    \* st.cache_data store of cached_search_shorts
    video_cache,     \* st.cache_data store of cached_video_details
    channel_cache,   \* st.cache_data store of cached_channel_stats
    calls,           \* history: the gateway calls of each keyword's pass
    session_state,   \* st.session_state: api_key, results_df, search_completed
    secrets,         \* st.secrets, the same for the whole session
    search_enabled,  \* the page shows the search button enabled (app.py:537)
    runs,            \* history: the runs of this session that are over
    gateway_log,     \* history: every call of a cached gateway function
    probe            \* a pure function's arguments and result

vars == <<keywords, config, platform, now, start_date, pc, idx, all_rows,
          seen_video_ids, errors, videos, video_ids, channel_ids, vid_details,
          vid_map, chan_map, v_idx, search_cache, video_cache, channel_cache,
          calls, session_state, secrets, search_enabled, runs, gateway_log,
          probe>>

pipeVars == <<keywords, config, platform, now, start_date, pc, idx, all_rows,
              seen_video_ids, errors, videos, video_ids, channel_ids,
              vid_details, vid_map, chan_map, v_idx, search_cache, video_cache,
              channel_cache, calls, session_state, secrets, search_enabled,
              runs, gateway_log>>

(***************************************************************************)
(* Arithmetic helpers                                                      *)
(***************************************************************************)
Min(a, b) == IF a <= b THEN a ELSE b

Max(a, b) == IF a >= b THEN a ELSE b

(***************************************************************************)
(* Float arithmetic.  The metric functions compute in Python floats (IEEE  *)
(* 754 doubles) and round the result; which way a value half way between   *)
(* two decimals goes depends on the error of each operation, so the        *)
(* operations are modelled as the machine does them: exactly, then rounded *)
(* to MANT_DIG binary digits.                                              *)
(***************************************************************************)
\* the binary digits of a double's mantissa (sys.float_info.mant_dig)
MANT_DIG == 53

LIMB_BITS == 15

LIMB == 2 ^ LIMB_BITS

\* The exact numbers: a natural number as its digits to the base LIMB, the
\* lowest first; zero is the empty sequence.  The operations are functions,
\* so that an argument is evaluated once, before the application.
Bigs == Seq(0..(LIMB - 1))

BigOf[n \in Nat] ==
    IF n = 0 THEN <<>> ELSE <<n % LIMB>> \o BigOf[n \div LIMB]

\* without leading zeros
BigTrim[a \in Bigs] ==
    IF a = <<>> \/ a[Len(a)] # 0 THEN a ELSE BigTrim[SubSeq(a, 1, Len(a) - 1)]

\* the integer, for a number that fits
IntOfBig[a \in Bigs] == IF a = <<>> THEN 0 ELSE a[1] + LIMB * IntOfBig[Tail(a)]

\* the number of binary digits
BitLen[n \in Nat] == IF n = 0 THEN 0 ELSE 1 + BitLen[n \div 2]

BigBitLen[a \in Bigs] ==
    IF a = <<>> THEN 0 ELSE LIMB_BITS * (Len(a) - 1) + BitLen[a[Len(a)]]

BigLimb(a, i) == IF i >= 1 /\ i <= Len(a) THEN a[i] ELSE 0

\* a < b, = b, > b as -1, 0, 1, from limb i down
BigCmpFrom[a \in Bigs, b \in Bigs, i \in Nat] ==
    IF i = 0 THEN 0
    ELSE IF BigLimb(a, i) < BigLimb(b, i) THEN -1
    ELSE IF BigLimb(a, i) > BigLimb(b, i) THEN 1
    ELSE BigCmpFrom[a, b, i - 1]

BigCmp[a \in Bigs, b \in Bigs] == BigCmpFrom[a, b, Max(Len(a), Len(b))]

\* a + b from limb i up, with the carry of the limbs below
BigAddFrom[a \in Bigs, b \in Bigs, i \in Nat, carry \in Nat] ==
    IF i > Len(a) /\ i > Len(b) THEN (IF carry = 0 THEN <<>> ELSE <<carry>>)
    ELSE <<(BigLimb(a, i) + BigLimb(b, i) + carry) % LIMB>>
           \o BigAddFrom[a, b, i + 1,
                         (BigLimb(a, i) + BigLimb(b, i) + carry) \div LIMB]

BigAdd[a \in Bigs, b \in Bigs] == BigAddFrom[a, b, 1, 0]

\* a * k from limb i up, for 0 < k <= LIMB
BigMulFrom[a \in Bigs, k \in Nat, i \in Nat, carry \in Nat] ==
    IF i > Len(a) THEN (IF carry = 0 THEN <<>> ELSE <<carry>>)
    ELSE <<(a[i] * k + carry) % LIMB>>
           \o BigMulFrom[a, k, i + 1, (a[i] * k + carry) \div LIMB]

BigMulSmall[a \in Bigs, k \in Nat] == BigMulFrom[a, k, 1, 0]

\* a * 2^s
BigShl[a \in Bigs, s \in Nat] ==
    IF a = <<>> THEN <<>>
    ELSE [i \in 1..(s \div LIMB_BITS) |-> 0]
           \o BigMulSmall[a, 2 ^ (s % LIMB_BITS)]

\* (r * 2^bits + x) divided by d, for r < d and x < 2^bits, one binary digit
\* of x at a time: q + the quotient, and the remainder (2 * r + bit is
\* compared with d as r with d - r - bit, which stays within the integers of
\* TLC)
DivStep[r \in Nat, x \in Nat, bits \in Nat, d \in Nat, q \in Nat] ==
    IF bits = 0 THEN [q |-> q, r |-> r]
    ELSE LET top  == 2 ^ (bits - 1)
             need == d - r - x \div top
         IN  IF r >= need
             THEN DivStep[r - need, x % top, bits - 1, d, q + top]
             ELSE DivStep[2 * r + x \div top, x % top, bits - 1, d, q]

\* a divided by the integer d > 0, from limb i down, with the remainder r and
\* the quotient q of the limbs above
BigDivFrom[a \in Bigs, d \in Nat, i \in Nat, r \in Nat, q \in Bigs] ==
    IF i = 0 THEN [q |-> q, r |-> r]
    ELSE LET step == DivStep[r, a[i], LIMB_BITS, d, 0]
         IN  BigDivFrom[a, d, i - 1, step.r, <<step.q>> \o q]

BigDivInt[a \in Bigs, d \in Nat] ==
    LET dm == BigDivFrom[a, d, Len(a), 0, <<>>]
    IN  [q |-> BigTrim[dm.q], r |-> dm.r]

\* q, or q + 1 when the rest is above the half (cmp = 1) or is the half and q
\* is odd (cmp = 0): rounding to nearest, a half to even
NearestEven[q \in Bigs, cmp \in Int] ==
    IF cmp > 0 \/ (cmp = 0 /\ q # <<>> /\ q[1] % 2 = 1) THEN BigAdd[q, <<1>>]
    ELSE q

\* a / 2^t rounded to nearest, a half to even, for t > 0
BigShrRound[a \in Bigs, t \in Nat] ==
    LET k     == t \div LIMB_BITS
        j     == t % LIMB_BITS
        dm    == BigDivInt[SubSeq(a, k + 1, Len(a)), 2 ^ j]
        low   == \E i \in 1..Min(k, Len(a)) : a[i] # 0
        lower == \E i \in 1..Min(k - 1, Len(a)) : a[i] # 0
        \* the dropped part against the half of 2^t
        cmp   == IF j > 0
                 THEN (IF dm.r > 2 ^ (j - 1) THEN 1
                       ELSE IF dm.r < 2 ^ (j - 1) THEN -1
                       ELSE IF low THEN 1 ELSE 0)
                 ELSE (IF BigLimb(a, k) > LIMB \div 2 THEN 1
                       ELSE IF BigLimb(a, k) < LIMB \div 2 THEN -1
                       ELSE IF lower THEN 1 ELSE 0)
    IN  NearestEven[dm.q, cmp]

\* A double (non-negative, normal): the value m * 2^e with m below
\* 2^MANT_DIG
Floats == [m : Bigs, e : Int]

\* float(n) of an int
FloatOfInt[n \in Nat] == [m |-> BigOf[n], e |-> 0]

\* the double nearest to a * 2^e, a half to even (IEEE 754 round to nearest,
\* the rounding of every float operation of the code)
FloatOfBig[a \in Bigs, e \in Int] ==
    IF BigBitLen[a] <= MANT_DIG THEN [m |-> a, e |-> e]
    ELSE [m |-> BigShrRound[a, BigBitLen[a] - MANT_DIG],
          e |-> e + BigBitLen[a] - MANT_DIG]

\* x / d for an int d > 0
FloatDivInt[x \in Floats, d \in Nat] ==
    IF x.m = <<>> THEN x
    ELSE LET s0   == MANT_DIG - (BigBitLen[x.m] - BitLen[d])
             wide == BigBitLen[BigDivInt[BigShl[x.m, s0], d].q] > MANT_DIG
             s    == IF wide THEN s0 - 1 ELSE s0
             dm   == BigDivInt[BigShl[x.m, s], d]
             cmp  == IF dm.r > d - dm.r THEN 1
                     ELSE IF dm.r < d - dm.r THEN -1 ELSE 0
         IN  [m |-> NearestEven[dm.q, cmp], e |-> x.e - s]

\* x * k for an int k, 0 < k <= LIMB
FloatMulInt[x \in Floats, k \in Nat] == FloatOfBig[BigMulSmall[x.m, k], x.e]

\* x + y
FloatAdd[x \in Floats, y \in Floats] ==
    IF x.m = <<>> THEN y
    ELSE IF y.m = <<>> THEN x
    ELSE FloatOfBig[BigAdd[BigShl[x.m, x.e - Min(x.e, y.e)],
                           BigShl[y.m, y.e - Min(x.e, y.e)]],
                    Min(x.e, y.e)]

\* x against y as -1, 0, 1
FloatCmp[x \in Floats, y \in Floats] ==
    IF x.m = <<>> THEN (IF y.m = <<>> THEN 0 ELSE -1)
    ELSE IF y.m = <<>> THEN 1
    ELSE BigCmp[BigShl[x.m, x.e - Min(x.e, y.e)],
                BigShl[y.m, y.e - Min(x.e, y.e)]]

\* min(x, y): y when y < x, else x
FloatMin[x \in Floats, y \in Floats] == IF FloatCmp[y, x] < 0 THEN y ELSE x

\* round(x, ndigits) times scale = 10^ndigits, as an integer.  Python rounds
\* the exact value of the double x to the nearest multiple of 10^-ndigits, a
\* half to even; a decimal half that is no double (0.005, 100.5 / 10) has
\* already gone up or down with the error of the operations before.
round[x \in Floats, scale \in Nat] ==
    IntOfBig[IF x.e >= 0 THEN BigShl[BigMulSmall[x.m, scale], x.e]
             ELSE BigShrRound[BigMulSmall[x.m, scale], -x.e]]

(***************************************************************************)
(* Metric calculator                                                       *)
(***************************************************************************)
\* round((likes + comments) / views * 100, 2), in hundredths of a percent
calculate_engagement_rate(views, likes, comments) ==
    IF views = 0 THEN 0
    ELSE round[FloatMulInt[FloatDivInt[FloatOfInt[likes + comments], views],
                           100], 100]

\* sub_ratio_score = min(views_per_sub * 10, 50) with views_per_sub =
\* views / max(subs, 1)
sub_ratio_score(views, subs) ==
    FloatMin[FloatMulInt[FloatDivInt[FloatOfInt[views], Max(subs, 1)], 10],
             FloatOfInt[50]]

\* velocity_score = min(views_per_day / 1000 * 50, 50) with views_per_day =
\* views / max(days_old, 1)
velocity_score(views, days_old) ==
    FloatMin[FloatMulInt[FloatDivInt[FloatDivInt[FloatOfInt[views],
                                                 Max(days_old, 1)], 1000], 50],
             FloatOfInt[50]]

\* the function without its "subs == 0 or days_old == 0" guard
calculate_virality_score_unguarded(views, subs, days_old) ==
    round[FloatAdd[sub_ratio_score(views, subs),
                   velocity_score(views, days_old)], 10]

\* round(sub_ratio_score + velocity_score, 1), in tenths
calculate_virality_score(views, subs, days_old) ==
    IF subs = 0 \/ days_old = 0 THEN 0
    ELSE round[FloatAdd[sub_ratio_score(views, subs),
                        velocity_score(views, days_old)], 10]

SECONDS_PER_DAY == 86400

\* a publishedAt string: an ISO instant, in seconds, or text that
\* datetime.fromisoformat rejects (the absent key's "" among them)
Timestamp(t) == [parsable |-> TRUE, at |-> t]

Unparsable == [parsable |-> FALSE, at |-> 0]

\* (now - pub_date).days, timedelta.days being the floor; 0 from the except
\* branch when the string does not parse
calculate_days_old(published_at, clock) ==
    IF ~published_at.parsable THEN 0
    ELSE (clock - published_at.at) \div SECONDS_PER_DAY

(***************************************************************************)
(* Duration codec                                                          *)
(***************************************************************************)
\* the characters \d matches and int() converts: re's \d of a str pattern is
\* every character of the category Nd (Unicode 14.0.0), not "0".."9" alone.
\* They come in rows of ten, one row per script, the digit of value d at
\* position d + 1 of its row.
DigitRows ==
    {
      <<"0", "1", "2", "3", "4", "5", "6", "7", "8", "9">>,
      <<"U+0660", "U+0661", "U+0662", "U+0663", "U+0664", "U+0665", "U+0666", "U+0667", "U+0668", "U+0669">>,
      <<"U+06F0", "U+06F1", "U+06F2", "U+06F3", "U+06F4", "U+06F5", "U+06F6", "U+06F7", "U+06F8", "U+06F9">>,
      <<"U+07C0", "U+07C1", "U+07C2", "U+07C3", "U+07C4", "U+07C5", "U+07C6", "U+07C7", "U+07C8", "U+07C9">>,
      <<"U+0966", "U+0967", "U+0968", "U+0969", "U+096A", "U+096B", "U+096C", "U+096D", "U+096E", "U+096F">>,
      <<"U+09E6", "U+09E7", "U+09E8", "U+09E9", "U+09EA", "U+09EB", "U+09EC", "U+09ED", "U+09EE", "U+09EF">>,
      <<"U+0A66", "U+0A67", "U+0A68", "U+0A69", "U+0A6A", "U+0A6B", "U+0A6C", "U+0A6D", "U+0A6E", "U+0A6F">>,
      <<"U+0AE6", "U+0AE7", "U+0AE8", "U+0AE9", "U+0AEA", "U+0AEB", "U+0AEC", "U+0AED", "U+0AEE", "U+0AEF">>,
      <<"U+0B66", "U+0B67", "U+0B68", "U+0B69", "U+0B6A", "U+0B6B", "U+0B6C", "U+0B6D", "U+0B6E", "U+0B6F">>,
      <<"U+0BE6", "U+0BE7", "U+0BE8", "U+0BE9", "U+0BEA", "U+0BEB", "U+0BEC", "U+0BED", "U+0BEE", "U+0BEF">>,
      <<"U+0C66", "U+0C67", "U+0C68", "U+0C69", "U+0C6A", "U+0C6B", "U+0C6C", "U+0C6D", "U+0C6E", "U+0C6F">>,
      <<"U+0CE6", "U+0CE7", "U+0CE8", "U+0CE9", "U+0CEA", "U+0CEB", "U+0CEC", "U+0CED", "U+0CEE", "U+0CEF">>,
      <<"U+0D66", "U+0D67", "U+0D68", "U+0D69", "U+0D6A", "U+0D6B", "U+0D6C", "U+0D6D", "U+0D6E", "U+0D6F">>,
      <<"U+0DE6", "U+0DE7", "U+0DE8", "U+0DE9", "U+0DEA", "U+0DEB", "U+0DEC", "U+0DED", "U+0DEE", "U+0DEF">>,
      <<"U+0E50", "U+0E51", "U+0E52", "U+0E53", "U+0E54", "U+0E55", "U+0E56", "U+0E57", "U+0E58", "U+0E59">>,
      <<"U+0ED0", "U+0ED1", "U+0ED2", "U+0ED3", "U+0ED4", "U+0ED5", "U+0ED6", "U+0ED7", "U+0ED8", "U+0ED9">>,
      <<"U+0F20", "U+0F21", "U+0F22", "U+0F23", "U+0F24", "U+0F25", "U+0F26", "U+0F27", "U+0F28", "U+0F29">>,
      <<"U+1040", "U+1041", "U+1042", "U+1043", "U+1044", "U+1045", "U+1046", "U+1047", "U+1048", "U+1049">>,
      <<"U+1090", "U+1091", "U+1092", "U+1093", "U+1094", "U+1095", "U+1096", "U+1097", "U+1098", "U+1099">>,
      <<"U+17E0", "U+17E1", "U+17E2", "U+17E3", "U+17E4", "U+17E5", "U+17E6", "U+17E7", "U+17E8", "U+17E9">>,
      <<"U+1810", "U+1811", "U+1812", "U+1813", "U+1814", "U+1815", "U+1816", "U+1817", "U+1818", "U+1819">>,
      <<"U+1946", "U+1947", "U+1948", "U+1949", "U+194A", "U+194B", "U+194C", "U+194D", "U+194E", "U+194F">>,
      <<"U+19D0", "U+19D1", "U+19D2", "U+19D3", "U+19D4", "U+19D5", "U+19D6", "U+19D7", "U+19D8", "U+19D9">>,
      <<"U+1A80", "U+1A81", "U+1A82", "U+1A83", "U+1A84", "U+1A85", "U+1A86", "U+1A87", "U+1A88", "U+1A89">>,
      <<"U+1A90", "U+1A91", "U+1A92", "U+1A93", "U+1A94", "U+1A95", "U+1A96", "U+1A97", "U+1A98", "U+1A99">>,
      <<"U+1B50", "U+1B51", "U+1B52", "U+1B53", "U+1B54", "U+1B55", "U+1B56", "U+1B57", "U+1B58", "U+1B59">>,
      <<"U+1BB0", "U+1BB1", "U+1BB2", "U+1BB3", "U+1BB4", "U+1BB5", "U+1BB6", "U+1BB7", "U+1BB8", "U+1BB9">>,
      <<"U+1C40", "U+1C41", "U+1C42", "U+1C43", "U+1C44", "U+1C45", "U+1C46", "U+1C47", "U+1C48", "U+1C49">>,
      <<"U+1C50", "U+1C51", "U+1C52", "U+1C53", "U+1C54", "U+1C55", "U+1C56", "U+1C57", "U+1C58", "U+1C59">>,
      <<"U+A620", "U+A621", "U+A622", "U+A623", "U+A624", "U+A625", "U+A626", "U+A627", "U+A628", "U+A629">>,
      <<"U+A8D0", "U+A8D1", "U+A8D2", "U+A8D3", "U+A8D4", "U+A8D5", "U+A8D6", "U+A8D7", "U+A8D8", "U+A8D9">>,
      <<"U+A900", "U+A901", "U+A902", "U+A903", "U+A904", "U+A905", "U+A906", "U+A907", "U+A908", "U+A909">>,
      <<"U+A9D0", "U+A9D1", "U+A9D2", "U+A9D3", "U+A9D4", "U+A9D5", "U+A9D6", "U+A9D7", "U+A9D8", "U+A9D9">>,
      <<"U+A9F0", "U+A9F1", "U+A9F2", "U+A9F3", "U+A9F4", "U+A9F5", "U+A9F6", "U+A9F7", "U+A9F8", "U+A9F9">>,
      <<"U+AA50", "U+AA51", "U+AA52", "U+AA53", "U+AA54", "U+AA55", "U+AA56", "U+AA57", "U+AA58", "U+AA59">>,
      <<"U+ABF0", "U+ABF1", "U+ABF2", "U+ABF3", "U+ABF4", "U+ABF5", "U+ABF6", "U+ABF7", "U+ABF8", "U+ABF9">>,
      <<"U+FF10", "U+FF11", "U+FF12", "U+FF13", "U+FF14", "U+FF15", "U+FF16", "U+FF17", "U+FF18", "U+FF19">>,
      <<"U+104A0", "U+104A1", "U+104A2", "U+104A3", "U+104A4", "U+104A5", "U+104A6", "U+104A7", "U+104A8", "U+104A9">>,
      <<"U+10D30", "U+10D31", "U+10D32", "U+10D33", "U+10D34", "U+10D35", "U+10D36", "U+10D37", "U+10D38", "U+10D39">>,
      <<"U+11066", "U+11067", "U+11068", "U+11069", "U+1106A", "U+1106B", "U+1106C", "U+1106D", "U+1106E", "U+1106F">>,
      <<"U+110F0", "U+110F1", "U+110F2", "U+110F3", "U+110F4", "U+110F5", "U+110F6", "U+110F7", "U+110F8", "U+110F9">>,
      <<"U+11136", "U+11137", "U+11138", "U+11139", "U+1113A", "U+1113B", "U+1113C", "U+1113D", "U+1113E", "U+1113F">>,
      <<"U+111D0", "U+111D1", "U+111D2", "U+111D3", "U+111D4", "U+111D5", "U+111D6", "U+111D7", "U+111D8", "U+111D9">>,
      <<"U+112F0", "U+112F1", "U+112F2", "U+112F3", "U+112F4", "U+112F5", "U+112F6", "U+112F7", "U+112F8", "U+112F9">>,
      <<"U+11450", "U+11451", "U+11452", "U+11453", "U+11454", "U+11455", "U+11456", "U+11457", "U+11458", "U+11459">>,
      <<"U+114D0", "U+114D1", "U+114D2", "U+114D3", "U+114D4", "U+114D5", "U+114D6", "U+114D7", "U+114D8", "U+114D9">>,
      <<"U+11650", "U+11651", "U+11652", "U+11653", "U+11654", "U+11655", "U+11656", "U+11657", "U+11658", "U+11659">>,
      <<"U+116C0", "U+116C1", "U+116C2", "U+116C3", "U+116C4", "U+116C5", "U+116C6", "U+116C7", "U+116C8", "U+116C9">>,
      <<"U+11730", "U+11731", "U+11732", "U+11733", "U+11734", "U+11735", "U+11736", "U+11737", "U+11738", "U+11739">>,
      <<"U+118E0", "U+118E1", "U+118E2", "U+118E3", "U+118E4", "U+118E5", "U+118E6", "U+118E7", "U+118E8", "U+118E9">>,
      <<"U+11950", "U+11951", "U+11952", "U+11953", "U+11954", "U+11955", "U+11956", "U+11957", "U+11958", "U+11959">>,
      <<"U+11C50", "U+11C51", "U+11C52", "U+11C53", "U+11C54", "U+11C55", "U+11C56", "U+11C57", "U+11C58", "U+11C59">>,
      <<"U+11D50", "U+11D51", "U+11D52", "U+11D53", "U+11D54", "U+11D55", "U+11D56", "U+11D57", "U+11D58", "U+11D59">>,
      <<"U+11DA0", "U+11DA1", "U+11DA2", "U+11DA3", "U+11DA4", "U+11DA5", "U+11DA6", "U+11DA7", "U+11DA8", "U+11DA9">>,
      <<"U+16A60", "U+16A61", "U+16A62", "U+16A63", "U+16A64", "U+16A65", "U+16A66", "U+16A67", "U+16A68", "U+16A69">>,
      <<"U+16AC0", "U+16AC1", "U+16AC2", "U+16AC3", "U+16AC4", "U+16AC5", "U+16AC6", "U+16AC7", "U+16AC8", "U+16AC9">>,
      <<"U+16B50", "U+16B51", "U+16B52", "U+16B53", "U+16B54", "U+16B55", "U+16B56", "U+16B57", "U+16B58", "U+16B59">>,
      <<"U+1D7CE", "U+1D7CF", "U+1D7D0", "U+1D7D1", "U+1D7D2", "U+1D7D3", "U+1D7D4", "U+1D7D5", "U+1D7D6", "U+1D7D7">>,
      <<"U+1D7D8", "U+1D7D9", "U+1D7DA", "U+1D7DB", "U+1D7DC", "U+1D7DD", "U+1D7DE", "U+1D7DF", "U+1D7E0", "U+1D7E1">>,
      <<"U+1D7E2", "U+1D7E3", "U+1D7E4", "U+1D7E5", "U+1D7E6", "U+1D7E7", "U+1D7E8", "U+1D7E9", "U+1D7EA", "U+1D7EB">>,
      <<"U+1D7EC", "U+1D7ED", "U+1D7EE", "U+1D7EF", "U+1D7F0", "U+1D7F1", "U+1D7F2", "U+1D7F3", "U+1D7F4", "U+1D7F5">>,
      <<"U+1D7F6", "U+1D7F7", "U+1D7F8", "U+1D7F9", "U+1D7FA", "U+1D7FB", "U+1D7FC", "U+1D7FD", "U+1D7FE", "U+1D7FF">>,
      <<"U+1E140", "U+1E141", "U+1E142", "U+1E143", "U+1E144", "U+1E145", "U+1E146", "U+1E147", "U+1E148", "U+1E149">>,
      <<"U+1E2F0", "U+1E2F1", "U+1E2F2", "U+1E2F3", "U+1E2F4", "U+1E2F5", "U+1E2F6", "U+1E2F7", "U+1E2F8", "U+1E2F9">>,
      <<"U+1E950", "U+1E951", "U+1E952", "U+1E953", "U+1E954", "U+1E955", "U+1E956", "U+1E957", "U+1E958", "U+1E959">>,
      <<"U+1FBF0", "U+1FBF1", "U+1FBF2", "U+1FBF3", "U+1FBF4", "U+1FBF5", "U+1FBF6", "U+1FBF7", "U+1FBF8", "U+1FBF9">> }

Digits == UNION { {row[i] : i \in 1..10} : row \in DigitRows }

\* the value of each digit: its place in its row
DigitValues ==
    [c \in Digits |-> CHOOSE d \in 0..9 : \E row \in DigitRows : row[d + 1] = c]

\* int() of one digit
DigitVal(c) == DigitValues[c]

\* c in s
Contains(s, c) == \E i \in 1..Len(s) : s[i] = c

\* s.startswith("PT"); the empty string is falsy and starts with nothing
StartsWithPT(s) == Len(s) >= 2 /\ s[1] = "P" /\ s[2] = "T"

\* the length of the run of digits of s that starts at position i: up to the
\* first position that is past the end of s or holds no digit
DigitRun(s, i) ==
    LET stop == CHOOSE k \in i..(Len(s) + 1) :
                  /\ k > Len(s) \/ s[k] \notin Digits
                  /\ \A j \in i..(k - 1) : s[j] \in Digits
    IN  stop - i

\* the zeros that lead the n digits of s from position i on
LeadingZeros(s, i, n) ==
    LET stop == CHOOSE k \in i..(i + n) :
                  /\ k = i + n \/ DigitVal(s[k]) # 0
                  /\ \A j \in i..(k - 1) : DigitVal(s[j]) = 0
    IN  stop - i

\* the number that the n digits of s from position i on stand for
RECURSIVE DigitsValue(_, _, _)
DigitsValue(s, i, n) ==
    IF n = 0 THEN 0 ELSE 10 * DigitsValue(s, i, n - 1) + DigitVal(s[i + n - 1])

\* the most digits int() converts (CPython's sys.int_max_str_digits, 3.11
\* and later): a longer string makes it raise ValueError
INT_MAX_STR_DIGITS == 4300

\* a ValueError that int() raised and nothing caught, where a number would
\* have been returned
ValueError == -2

\* the same where a string would have been returned
ValueErrorRaised == <<"ValueError">>

\* int() of the n digits of s from position i on
IntOf(s, i, n) ==
    IF n > INT_MAX_STR_DIGITS THEN ValueError
    ELSE LET z == LeadingZeros(s, i, n)
         IN  DigitsValue(s, i + z, n - z)

NoMatch == -1

\* match = re.match(r'(\d+)<unit>', s) and, if match, int(match.group(1)):
\* the number, if s begins with one or more digits directly followed by
\* unit, or ValueError if int() raises; else NoMatch (match is None)
ReMatch(s, unit) ==
    LET n == DigitRun(s, 1)
    IN  IF n >= 1 /\ n + 1 <= Len(s) /\ s[n + 1] = unit
        THEN IntOf(s, 1, n) ELSE NoMatch

\* re.sub(r'\d+<unit>', '', s) from position i on: every run of digits
\* directly followed by unit is removed, everything else is kept
RECURSIVE ReSub(_, _, _)
ReSub(s, unit, i) ==
    IF i > Len(s) THEN <<>>
    ELSE LET n == DigitRun(s, i)
         IN  IF n = 0 THEN <<s[i]>> \o ReSub(s, unit, i + 1)
             ELSE IF i + n <= Len(s) /\ s[i + n] = unit
                  THEN ReSub(s, unit, i + n + 1)
                  ELSE SubSeq(s, i, i + n - 1) \o ReSub(s, unit, i + n)

\* app.py:265-285.  int() at lines 277 and 283 stands in no try: its
\* ValueError leaves the function.
parse_duration_seconds(iso_duration) ==
    IF ~StartsWithPT(iso_duration) THEN 0
    ELSE LET duration == SubSeq(iso_duration, 3, Len(iso_duration))
             hasM     == Contains(duration, "M")
             m        == IF hasM THEN ReMatch(duration, "M") ELSE NoMatch
             minutes  == IF m # NoMatch THEN m ELSE 0
             rest     == IF hasM THEN ReSub(duration, "M", 1) ELSE duration
             sec      == IF Contains(rest, "S") THEN ReMatch(rest, "S")
                         ELSE NoMatch
             seconds  == IF sec # NoMatch THEN sec ELSE 0
         IN  IF m = ValueError THEN ValueError
             ELSE IF sec = ValueError THEN ValueError
             ELSE minutes * 60 + seconds

\* the character str() and format() write for a digit value
DigitChar(d) == <<"0", "1", "2", "3", "4", "5", "6", "7", "8", "9">>[d + 1]

\* str(n) of a non-negative integer
RECURSIVE Decimal(_)
Decimal(n) ==
    IF n < 10 THEN <<DigitChar(n)>>
    ELSE Decimal(n \div 10) \o <<DigitChar(n % 10)>>

\* f"{n:02d}": the decimal digits, filled with zeros up to a width of two
Format02d(n) == IF n < 10 THEN <<"0">> \o Decimal(n) ELSE Decimal(n)

\* app.py:241-263, parse_duration: the same extraction as
\* parse_duration_seconds, int() at lines 253 and 260 in no try either,
\* returned as f"{minutes:02d}:{seconds:02d}"
parse_duration(iso_duration) ==
    IF ~StartsWithPT(iso_duration) THEN <<"0", "0", ":", "0", "0">>
    ELSE LET duration == SubSeq(iso_duration, 3, Len(iso_duration))
             hasM     == Contains(duration, "M")
             m        == IF hasM THEN ReMatch(duration, "M") ELSE NoMatch
             minutes  == IF m # NoMatch THEN m ELSE 0
             rest     == IF hasM THEN ReSub(duration, "M", 1) ELSE duration
             sec      == IF Contains(rest, "S") THEN ReMatch(rest, "S")
                         ELSE NoMatch
             seconds  == IF sec # NoMatch THEN sec ELSE 0
         IN  IF m = ValueError THEN ValueErrorRaised
             ELSE IF sec = ValueError THEN ValueErrorRaised
             ELSE Format02d(minutes) \o <<":">> \o Format02d(seconds)

(***************************************************************************)
(* Idea angle.  The text is a sequence of pieces: the fragments of the      *)
(* f-string and the hook phrases as whole strings, the title as its        *)
(* characters.                                                             *)
(***************************************************************************)
\* the else "trending format" taken as the last branch of the views tests
hook_text_trending_by_views(views, engagement) ==
    (IF views > 1000000 THEN <<"VIRAL format">>
     ELSE IF views > 100000 THEN <<"High-performing format">>
     ELSE <<"trending format">>)
      \o (IF engagement > 500 THEN <<", ", "high engagement hook">> ELSE <<>>)

\* hooks as the two tests fill it, then
\* hook_text = ", ".join(hooks) if hooks else "trending format";
\* engagement in hundredths of a percent, engagement > 5 being > 500
hook_text(views, engagement) ==
    LET by_views == IF views > 1000000 THEN <<"VIRAL format">>
                    ELSE IF views > 100000 THEN <<"High-performing format">>
                    ELSE <<>>
        by_engagement == IF engagement > 500 THEN <<"high engagement hook">>
                         ELSE <<>>
        hooks == by_views \o by_engagement
    IN  IF hooks = <<>> THEN <<"trending format">>
        ELSE IF Len(hooks) = 1 THEN hooks
        ELSE <<hooks[1], ", ", hooks[2]>>

\* title[:50]
title_50(title) == SubSeq(title, 1, Min(Len(title), 50))

\* the returned f-string
generate_idea_angle(title, niche, views, engagement) ==
    <<"Recreate this ">> \o hook_text(views, engagement)
      \o <<" for '", niche, "'. Study: '">> \o title_50(title)
      \o <<"...' - Adapt the hook structure, change the examples, maintain similar pacing.">>

(***************************************************************************)
(* Remote data gateway: responses and the st.cache_data stores             *)
(***************************************************************************)
TTL == 3600

\* requests.exceptions.RequestException caught: {"error": str(e)}
ErrorValue(msg) == [kind |-> "error", error |-> msg]

\* "error" in response
IsError(r) == r.kind = "error"

\* response.get("items", [])
Items(r) == IF r.kind \in {"ok", "items"} THEN r.items ELSE <<>>

\* the warning without the keyword
search_warning_anonymous(kw, err) == <<"Search error", err>>

\* f"Search error for '{kw}': {search_data['error']}"
search_warning(kw, err) == <<"Search error for", kw, err>>

\* only the video response tested
detail_failed_video_only(vid, chan) == IsError(vid)

\* if "error" in vid_details or "error" in chan_details
detail_failed(vid, chan) == IsError(vid) \/ IsError(chan)

\* the channel a video belongs to
ChannelOf(v) == IF v = "A" THEN "c1" ELSE IF v = "B" THEN "c2" ELSE "c3"

Hit(v) == [videoId |-> v, channelId |-> ChannelOf(v)]

\* sequences over S of length 0..n
RECURSIVE SeqsUpTo(_, _)
SeqsUpTo(S, n) ==
    IF n = 0 THEN {<<>>}
    ELSE LET shorter == SeqsUpTo(S, n - 1)
         IN  shorter \cup {Append(q, x) : q \in shorter, x \in S}

\* the elements of a sequence
Range(q) == {q[i] : i \in 1..Len(q)}

\* what GET /search may answer: a transport failure, a body without
\* "items", or a list of at most max_results hits (repeats possible)
SearchResponses(p) ==
    {ErrorValue(m) : m \in p.search_errors}
      \cup {[kind |-> "noitems"]}
      \cup {[kind |-> "items", items |-> q] :
              q \in SeqsUpTo({Hit(v) : v \in p.videos}, p.max_hits)}

\* what GET /videos?id=... may answer: a failure, or items for some of the
\* requested ids, keyed by id as vid_map keys them
VideoResponses(p, ids) ==
    {ErrorValue("HTTPError")}
      \cup {[kind |-> "ok", items |-> f] :
              f \in UNION {[S -> p.video_items] : S \in SUBSET Range(ids)}}

\* what GET /channels?id=... may answer
ChannelResponses(p, ids) ==
    {ErrorValue("HTTPError")}
      \cup {[kind |-> "ok", items |-> f] :
              f \in UNION {[S -> p.channel_items] : S \in SUBSET Range(ids)}}

\* an entry younger than ttl answers the call
CacheHit(cache, key, clock) ==
    key \in DOMAIN cache /\ clock - cache[key].at < TTL

\* the values a cached call can return: the stored one, or what the wrapped
\* function gets from the platform
CachedCall(cache, key, clock, fresh) ==
    IF CacheHit(cache, key, clock) THEN {cache[key].val} ELSE fresh

\* the seconds a cached call can take: the store answers at once, the
\* wrapped function blocks in requests.get until the platform has answered
CallSeconds(cache, key, clock, p) ==
    IF CacheHit(cache, key, clock) THEN {0} ELSE p.request_seconds

\* a store that keeps successful responses only
CacheStore_successes_only(cache, key, clock, returned, val) ==
    IF CacheHit(cache, key, clock) \/ IsError(val) THEN cache
    ELSE [k \in DOMAIN cache \cup {key} |->
            IF k = key THEN [val |-> val, at |-> returned] ELSE cache[k]]

\* the store after the call, looked up at clock, returned val: on a miss the
\* value is stored when the wrapped function has returned
CacheStore(cache, key, clock, returned, val) ==
    IF CacheHit(cache, key, clock) THEN cache
    ELSE [k \in DOMAIN cache \cup {key} |->
            IF k = key THEN [val |-> val, at |-> returned] ELSE cache[k]]

SearchKey(kw) == <<kw, start_date, config.region, config.api_key,
                   config.results_per_keyword>>

DetailKey(ids) == <<ids, config.api_key>>

\* list(set(xs)): the elements once each, in an order Python does not fix
Orderings(S) ==
    {q \in SeqsUpTo(S, Cardinality(S)) : Len(q) = Cardinality(S) /\ Range(q) = S}

(***************************************************************************)
(* Aggregation pipeline: one keyword's pass (app.py:563-692)               *)
(***************************************************************************)
\* if duration_sec < duration_range[0] or duration_sec > duration_range[1]
duration_in_range(duration_sec) ==
    /\ duration_sec >= config.duration_range[1]
    /\ duration_sec <= config.duration_range[2]

\* the views test off by one: views <= min_views rejects
passes_filters_views_strict(views, subs, engagement_rate, virality_score) ==
    /\ ~(views <= config.min_views)
    /\ ~(config.max_subs > 0 /\ subs > config.max_subs)
    /\ ~(engagement_rate < config.min_engagement)
    /\ ~(virality_score < config.min_virality * 10)

\* the four "Apply filters" tests, each a continue when it fails
passes_filters(views, subs, engagement_rate, virality_score) ==
    /\ ~(views < config.min_views)
    /\ ~(config.max_subs > 0 /\ subs > config.max_subs)
    /\ ~(engagement_rate < config.min_engagement)
    /\ ~(virality_score < config.min_virality * 10)

\* a default of one subscriber for the missing channel
channel_subs_default_one(cmap, ch_id) ==
    IF ch_id \in DOMAIN cmap THEN cmap[ch_id].subscriberCount ELSE 1

\* c_detail = chan_map.get(ch_id, {}); subs = int(subscriberCount) if the
\* key is there, else 0
channel_subs(cmap, ch_id) ==
    IF ch_id \in DOMAIN cmap THEN cmap[ch_id].subscriberCount ELSE 0

\* the score taken from days_old as it is
row_virality_raw_days(views, subs, days_old) ==
    calculate_virality_score(views, subs, days_old)

\* the score of a row: calculate_virality_score(views, subs, max(days_old, 1))
row_virality(views, subs, days_old) ==
    calculate_virality_score(views, subs, Max(days_old, 1))

\* the body of "for v in videos" for one hit: the rows it appends (none or
\* one), with the fields of the row the properties read
rows_of_hit(v, kw, vmap, cmap, clock) ==
    IF v.videoId \notin DOMAIN vmap THEN <<>>
    ELSE LET v_detail        == vmap[v.videoId]
             views           == v_detail.viewCount
             likes           == v_detail.likeCount
             comments        == v_detail.commentCount
             subs            == channel_subs(cmap, v.channelId)
             duration_sec    == parse_duration_seconds(v_detail.duration)
             days_old        == calculate_days_old(v_detail.publishedAt, clock)
             engagement_rate == calculate_engagement_rate(views, likes, comments)
             virality_score  == row_virality(views, subs, days_old)
         IN  IF ~duration_in_range(duration_sec) THEN <<>>
             ELSE IF ~passes_filters(views, subs, engagement_rate,
                                     virality_score) THEN <<>>
             ELSE << [VideoID        |-> v.videoId,
                      Views          |-> views,
                      Likes          |-> likes,
                      Comments       |-> comments,
                      EngagementRate |-> engagement_rate,
                      ViralityScore  |-> virality_score,
                      DurationSec    |-> duration_sec,
                      DaysOld        |-> days_old,
                      ChannelID      |-> v.channelId,
                      ChannelSubs    |-> subs,
                      Keyword        |-> kw] >>

\* app.py:623: the hit has a detail and parse_duration_seconds raises on its
\* duration: the ValueError stands in no try and ends the run
hit_raises(v, vmap) ==
    /\ v.videoId \in DOMAIN vmap
    /\ parse_duration_seconds(vmap[v.videoId].duration) = ValueError

\* the hit gets as far as days_old = calculate_days_old(published_at): it has
\* a detail and its duration is in range
reads_clock(v, vmap) ==
    /\ v.videoId \in DOMAIN vmap
    /\ duration_in_range(parse_duration_seconds(vmap[v.videoId].duration))

\* the comprehension without its "not in seen_video_ids" test
RECURSIVE new_video_ids_unfiltered(_, _, _)
new_video_ids_unfiltered(vs, i, seen) ==
    IF i > Len(vs) THEN <<>>
    ELSE <<vs[i].videoId>> \o new_video_ids_unfiltered(vs, i + 1, seen)

\* video_ids = [v["id"]["videoId"] for v in videos
\*              if v["id"]["videoId"] not in seen_video_ids]
RECURSIVE new_video_ids(_, _, _)
new_video_ids(vs, i, seen) ==
    IF i > Len(vs) THEN <<>>
    ELSE (IF vs[i].videoId \in seen THEN <<>> ELSE <<vs[i].videoId>>)
           \o new_video_ids(vs, i + 1, seen)

\* the marking left out
mark_seen_dropped(seen, ids) == seen

\* seen_video_ids.update(video_ids)
mark_seen(seen, ids) == seen \cup Range(ids)

NoCall == [kind |-> "none"]

\* the log entry of a call of a cached gateway function made at the clock
\* now: http tells whether the wrapped function ran, that is whether a
\* request was sent, and stored is the instant the returned value was stored
LogEntry(op, cache, key, returned, val) ==
    [op |-> op, key |-> key, at |-> now, val |-> val,
     http |-> ~CacheHit(cache, key, now),
     stored |-> IF CacheHit(cache, key, now) THEN cache[key].at ELSE returned]

\* row a ranks before row b under by=["Virality Score", "Views"],
\* ascending=[False, False]
RanksBefore(a, b) ==
    \/ a.ViralityScore > b.ViralityScore
    \/ a.ViralityScore = b.ViralityScore /\ a.Views > b.Views

\* an insertion that puts the row before the rows it ties with
RECURSIVE insert_row_before_ties(_, _)
insert_row_before_ties(ranked, row) ==
    IF ranked = <<>> THEN <<row>>
    ELSE IF ~RanksBefore(Head(ranked), row) THEN <<row>> \o ranked
    ELSE <<Head(ranked)>> \o insert_row_before_ties(Tail(ranked), row)

\* the place of one more row in a ranked frame: before the first row it
\* ranks before, so after every row it ties with
RECURSIVE insert_row(_, _)
insert_row(ranked, row) ==
    IF ranked = <<>> THEN <<row>>
    ELSE IF RanksBefore(row, Head(ranked)) THEN <<row>> \o ranked
    ELSE <<Head(ranked)>> \o insert_row(Tail(ranked), row)

\* pd.DataFrame(all_rows).sort_values(by=[...], ascending=[False, False])
\* .reset_index(drop=True).  With several keys pandas orders the rows by a
\* lexicographic sort of the keys that keeps rows with equal keys in the
\* order of the frame; the new index is the position in the sequence.
RECURSIVE sort_values(_)
sort_values(rows) ==
    IF rows = <<>> THEN <<>>
    ELSE insert_row(sort_values(SubSeq(rows, 1, Len(rows) - 1)),
                    rows[Len(rows)])

\* st.session_state.results_df = results_df;
\* st.session_state.search_completed = True
store_results(session, results_df) ==
    [k \in DOMAIN session \cup {"results_df", "search_completed"} |->
       IF k = "results_df" THEN results_df
       ELSE IF k = "search_completed" THEN TRUE
       ELSE session[k]]

\* the history entry of a keyword's pass; clocks holds, for each hit the loop
\* over the videos has handled, the clock when it was handled
PassRecord(kw, search_data) ==
    [kw |-> kw, search |-> search_data, video_req |-> <<>>,
     channel_req |-> <<>>, video |-> NoCall, channel |-> NoCall,
     seen_before |-> seen_video_ids, rows_before |-> Len(all_rows),
     clocks |-> <<>>]

\* a loop that steps over the keyword after this one
NextKeywordSkipping ==
    /\ idx' = idx + 2
    /\ pc' = "search"
    /\ videos' = <<>>
    /\ video_ids' = <<>>
    /\ channel_ids' = <<>>
    /\ vid_details' = NoCall
    /\ vid_map' = <<>>
    /\ chan_map' = <<>>
    /\ v_idx' = 1

\* continue / end of the loop body: on to the next keyword
NextKeyword ==
    /\ idx' = idx + 1
    /\ pc' = "search"
    /\ videos' = <<>>
    /\ video_ids' = <<>>
    /\ channel_ids' = <<>>
    /\ vid_details' = NoCall
    /\ vid_map' = <<>>
    /\ chan_map' = <<>>
    /\ v_idx' = 1

\* app.py:563-586: the search call, its error and empty branches, the new
\* ids and their marking as seen
SearchKeyword ==
    /\ pc = "search"
    /\ idx <= Len(keywords)
    /\ LET kw  == keywords[idx]
           key == SearchKey(kw)
       IN  \E search_data \in CachedCall(search_cache, key, now,
                                         SearchResponses(platform)),
              took \in CallSeconds(search_cache, key, now, platform) :
             /\ now' = now + took
             /\ search_cache' = CacheStore(search_cache, key, now, now + took,
                                           search_data)
             /\ calls' = Append(calls, PassRecord(kw, search_data))
             /\ gateway_log' = Append(gateway_log,
                                      LogEntry("search", search_cache, key,
                                               now + took, search_data))
             /\ IF IsError(search_data)
                THEN /\ errors' = Append(errors,
                                       search_warning(kw, search_data.error))
                     /\ NextKeyword
                     /\ UNCHANGED seen_video_ids
                ELSE IF Items(search_data) = <<>>
                THEN /\ NextKeyword
                     /\ UNCHANGED <<errors, seen_video_ids>>
                ELSE LET ids == new_video_ids(search_data.items, 1,
                                              seen_video_ids)
                     IN  IF ids = <<>>
                         THEN /\ NextKeyword
                              /\ UNCHANGED <<errors, seen_video_ids>>
                         ELSE /\ videos' = search_data.items
                              /\ video_ids' = ids
                              /\ channel_ids' \in Orderings(
                                   {h.channelId : h \in Range(search_data.items)})
                              /\ seen_video_ids' = mark_seen(seen_video_ids, ids)
                              /\ pc' = "video_details"
                              /\ UNCHANGED <<errors, idx, vid_details, vid_map,
                                             chan_map, v_idx>>
    /\ UNCHANGED <<keywords, config, platform, secrets, search_enabled,
                   start_date, all_rows,
                   video_cache, channel_cache, session_state, runs, probe>>

\* app.py:589: vid_details = cached_video_details(tuple(video_ids), api_key)
FetchVideoDetails ==
    /\ pc = "video_details"
    /\ LET vkey == DetailKey(video_ids)
       IN  \E details \in CachedCall(video_cache, vkey, now,
                                     VideoResponses(platform, video_ids)),
              took \in CallSeconds(video_cache, vkey, now, platform) :
             /\ now' = now + took
             /\ video_cache' = CacheStore(video_cache, vkey, now, now + took,
                                          details)
             /\ vid_details' = details
             /\ calls' = [calls EXCEPT ![idx].video_req = video_ids,
                                       ![idx].video = details]
             /\ gateway_log' = Append(gateway_log,
                                      LogEntry("videos", video_cache, vkey,
                                               now + took, details))
    /\ pc' = "channel_stats"
    /\ UNCHANGED <<keywords, config, platform, secrets, search_enabled,
                   start_date, idx, all_rows,
                   seen_video_ids, errors, videos, video_ids, channel_ids,
                   vid_map, chan_map, v_idx, search_cache, channel_cache,
                   session_state, runs, probe>>

\* app.py:590-597: chan_details = cached_channel_stats(tuple(channel_ids),
\* api_key), made whatever vid_details is; then the error branch and the
\* lookup maps
FetchChannelStats ==
    /\ pc = "channel_stats"
    /\ LET ckey == DetailKey(channel_ids)
       IN  \E chan_details \in CachedCall(channel_cache, ckey, now,
                                          ChannelResponses(platform, channel_ids)),
              took \in CallSeconds(channel_cache, ckey, now, platform) :
             /\ now' = now + took
             /\ channel_cache' = CacheStore(channel_cache, ckey, now,
                                            now + took, chan_details)
             /\ calls' = [calls EXCEPT ![idx].channel_req = channel_ids,
                                       ![idx].channel = chan_details]
             /\ gateway_log' = Append(gateway_log,
                                      LogEntry("channels", channel_cache, ckey,
                                               now + took, chan_details))
             /\ IF detail_failed(vid_details, chan_details)
                THEN NextKeyword
                ELSE /\ vid_map' = Items(vid_details)
                     /\ chan_map' = Items(chan_details)
                     /\ pc' = "process"
                     /\ UNCHANGED <<idx, videos, video_ids, channel_ids,
                                    vid_details, v_idx>>
    /\ UNCHANGED <<keywords, config, platform, secrets, search_enabled,
                   start_date, all_rows,
                   seen_video_ids, errors, search_cache, video_cache,
                   session_state, runs, probe>>

\* app.py:600-689: the body of "for v in videos" for the hit at v_idx.  A hit
\* that gets as far as calculate_days_old reads the clock there, some
\* seconds after the run last read it.  A hit on whose duration the codec
\* raises ends the run there (pc = "raised"): nothing of lines 624-713 is
\* executed.
ProcessVideo ==
    /\ pc = "process"
    /\ v_idx <= Len(videos)
    /\ IF hit_raises(videos[v_idx], vid_map)
       THEN /\ pc' = "raised"
            /\ UNCHANGED <<now, all_rows, calls, v_idx>>
       ELSE /\ \E passed \in IF reads_clock(videos[v_idx], vid_map)
                              THEN platform.local_seconds ELSE {0} :
                 /\ now' = now + passed
                 /\ all_rows' =
                      all_rows \o rows_of_hit(videos[v_idx], keywords[idx],
                                              vid_map, chan_map, now + passed)
                 /\ calls' = [calls EXCEPT
                                ![idx].clocks = Append(@, now + passed)]
            /\ v_idx' = v_idx + 1
            /\ pc' = pc
    /\ UNCHANGED <<keywords, config, platform, secrets, search_enabled,
                   start_date, idx,
                   seen_video_ids, errors, videos, video_ids, channel_ids,
                   vid_details, vid_map, chan_map, search_cache, video_cache,
                   channel_cache, session_state, runs, gateway_log, probe>>

\* app.py:692: the loop over the videos is over; time.sleep(0.1), then the
\* next keyword
Sleep ==
    /\ pc = "process"
    /\ v_idx > Len(videos)
    /\ \E passed \in platform.sleep_seconds : now' = now + passed
    /\ NextKeyword
    /\ UNCHANGED <<keywords, config, platform, secrets, search_enabled,
                   start_date, all_rows,
                   seen_video_ids, errors, search_cache, video_cache,
                   channel_cache, calls, session_state, runs, gateway_log,
                   probe>>

\* tab2: the frame the analytics view reads, none when the session holds no
\* results_df or an empty one
analytics_df(session) ==
    IF "results_df" \in DOMAIN session /\ session["results_df"] # <<>>
    THEN session["results_df"] ELSE <<>>

\* the end of a run that stores its frame whether it has rows or not
Finish_always_stores ==
    /\ pc = "search"
    /\ idx > Len(keywords)
    /\ pc' = "done"
    /\ session_state' = store_results(session_state, sort_values(all_rows))
    /\ UNCHANGED <<keywords, config, platform, secrets, search_enabled,
                   now, start_date, idx, all_rows,
                   seen_video_ids, errors, videos, video_ids, channel_ids,
                   vid_details, vid_map, chan_map, v_idx, search_cache,
                   video_cache, channel_cache, calls, runs, gateway_log,
                   probe>>

\* app.py:694-713: the loop is over; if all_rows: the rows are ranked and
\* stored in the session, else the session is left as it is
Finish ==
    /\ pc = "search"
    /\ idx > Len(keywords)
    /\ pc' = "done"
    /\ session_state' = IF all_rows # <<>>
                        THEN store_results(session_state, sort_values(all_rows))
                        ELSE session_state
    /\ UNCHANGED <<keywords, config, platform, secrets, search_enabled,
                   now, start_date, idx, all_rows,
                   seen_video_ids, errors, videos, video_ids, channel_ids,
                   vid_details, vid_map, chan_map, v_idx, search_cache,
                   video_cache, channel_cache, calls, runs, gateway_log,
                   probe>>

Next ==
    \/ SearchKeyword
    \/ FetchVideoDetails
    \/ FetchChannelStats
    \/ ProcessVideo
    \/ Sleep
    \/ Finish

(***************************************************************************)
(* Initial states                                                          *)
(***************************************************************************)
MaxKeywords == 2

MaxHits == 2

StartClock == 1000000

NoProbe == [fn |-> "none"]

\* the sidebar's defaults (app.py:405-476)
DefaultConfig ==
    [min_views |-> 5000, max_subs |-> 50000, min_engagement |-> 0,
     min_virality |-> 0, duration_range |-> <<0, 60>>, days |-> 7,
     region |-> "US", api_key |-> "key", results_per_keyword |-> 10]

KeywordLists == SeqsUpTo({"k1", "k2"}, MaxKeywords) \ {<<>>}

\* two videos as the platform may report them: one that clears the default
\* filters, published 5 s less than two days before the run starts, and one
\* that is too long and has too few views
VideoItems ==
    { [viewCount |-> 5000, likeCount |-> 230, commentCount |-> 20,
       duration |-> <<"P", "T", "5", "8", "S">>,
       publishedAt |-> Timestamp(StartClock - 2 * SECONDS_PER_DAY + 5)],
      [viewCount |-> 4999, likeCount |-> 0, commentCount |-> 20,
       duration |-> <<"P", "T", "1", "M", "5", "S">>,
       publishedAt |-> Unparsable] }

ChannelItems == { [subscriberCount |-> 1000] }

\* request_seconds, local_seconds, sleep_seconds: the whole seconds that may
\* pass on the clock during a request, between two steps of the script, and
\* during time.sleep(0.1)
Platform ==
    [videos |-> {"A", "B"}, max_hits |-> MaxHits,
     search_errors |-> {"ConnectionError"},
     video_items |-> VideoItems, channel_items |-> ChannelItems,
     request_seconds |-> {1}, local_seconds |-> {0}, sleep_seconds |-> {0}]

\* Python's None: a value that no key is equal to
None == "None"

\* not x, for a key: None and the empty string are falsy
Falsy(x) == x \in {None, ""}

\* app.py:167-184: the key of st.secrets if there is one, else the non-empty
\* key of the session, else None
get_api_key(secret, session) ==
    IF "YOUTUBE_API_KEY" \in DOMAIN secret THEN secret["YOUTUBE_API_KEY"]
    ELSE IF "api_key" \in DOMAIN session /\ ~Falsy(session["api_key"])
         THEN session["api_key"]
         ELSE None

\* st.session_state.api_key = key
set_api_key(session, key) ==
    [k \in DOMAIN session \cup {"api_key"} |->
       IF k = "api_key" THEN key ELSE session[k]]

\* app.py:380-398, the API key section of the sidebar in one run of the
\* script: user_key is the value of the text input (shown when there is no
\* key), change_clicked the "Change API Key" button (shown when there is
\* one).  Gives the session, the run's api_key, and whether st.rerun() ended
\* the run at line 398.
sidebar(secret, session, user_key, change_clicked) ==
    LET api_key == get_api_key(secret, session)
    IN  IF Falsy(api_key)
        THEN IF ~Falsy(user_key)
             THEN [session |-> set_api_key(session, user_key),
                   api_key |-> user_key, rerun |-> FALSE]
             ELSE [session |-> session, api_key |-> api_key, rerun |-> FALSE]
        ELSE IF change_clicked
             THEN [session |-> set_api_key(session, ""),
                   api_key |-> api_key, rerun |-> TRUE]
             ELSE [session |-> session, api_key |-> api_key, rerun |-> FALSE]

\* st.secrets holding the key
SecretsWith(key) == [k \in {"YOUTUBE_API_KEY"} |-> key]

\* the run's own state as the button is pressed: the keyword list is built,
\* the date floor computed, the accumulators empty (app.py:546-561)
RunBegin(kws, cfg, plat, clock) ==
    /\ keywords = kws
    /\ config = cfg
    /\ platform = plat
    /\ now = clock
    /\ start_date = clock - cfg.days * SECONDS_PER_DAY
    /\ pc = "search"
    /\ idx = 1
    /\ all_rows = <<>>
    /\ seen_video_ids = {}
    /\ errors = <<>>
    /\ videos = <<>>
    /\ video_ids = <<>>
    /\ channel_ids = <<>>
    /\ vid_details = NoCall
    /\ vid_map = <<>>
    /\ chan_map = <<>>
    /\ v_idx = 1
    /\ search_cache = <<>>
    /\ video_cache = <<>>
    /\ channel_cache = <<>>
    /\ calls = <<>>
    /\ runs = <<>>
    /\ gateway_log = <<>>

\* the first run of a session whose key stands in st.secrets: the session
\* holds nothing yet, the button was shown enabled
RunStart(kws, cfg, plat, clock) ==
    /\ RunBegin(kws, cfg, plat, clock)
    /\ secrets = SecretsWith(cfg.api_key)
    /\ session_state = <<>>
    /\ search_enabled = TRUE

Init ==
    /\ \E kws \in KeywordLists : RunStart(kws, DefaultConfig, Platform, StartClock)
    /\ probe = NoProbe

Spec == Init /\ [][Next]_vars

\* The run under the fairness the interpreter gives it: the loop body never
\* stops by itself, every iteration ends in a continue or falls through to
\* the next keyword.  One video with one profile is enough here: what
\* matters is the outcome of each gateway call (success, empty, error value)
\* and the time it takes: a request and the sleep take no second or one.
FairPlatform ==
    [videos |-> {"A"}, max_hits |-> 1,
     search_errors |-> {"ConnectionError"},
     video_items |-> {x \in VideoItems : x.viewCount >= DefaultConfig.min_views},
     channel_items |-> ChannelItems,
     request_seconds |-> {0, 1}, local_seconds |-> {0}, sleep_seconds |-> {0, 1}]

FairInit ==
    /\ \E kws \in KeywordLists :
         RunStart(kws, DefaultConfig, FairPlatform, StartClock)
    /\ probe = NoProbe

FairSpec == FairInit /\ [][Next]_vars /\ WF_vars(Next)

(***************************************************************************)
(* One keyword, one video, and the filters and statistics varied           *)
(***************************************************************************)
\* the floors off and on; the engagement floor is 1.5 %
FilterConfigs ==
    { [min_views |-> mv, max_subs |-> ms, min_engagement |-> me,
       min_virality |-> mvir, duration_range |-> dr, days |-> 7,
       region |-> "US", api_key |-> "key", results_per_keyword |-> 10] :
        mv \in {0, 5000}, ms \in {0, 1000}, me \in {0, 150},
        mvir \in {0, 20}, dr \in {<<0, 60>>, <<10, 30>>} }

\* 1495 likes and comments on 100000 views are 1.495 %, which the double
\* holds a little below and round(x, 2) gives as 1.49; a video published
\* 5 s less than two days before the run starts turns two days old while the
\* run goes on
FilterVideoItems ==
    { [viewCount |-> v, likeCount |-> l, commentCount |-> 20,
       duration |-> d, publishedAt |-> t] :
        v \in {500, 4999, 5000, 100000},
        l \in {0, 1475},
        d \in { <<"P", "T", "3", "0", "S">>, <<"P", "T", "1", "M">>,
                <<"P", "T", "1", "M", "1", "S">>, <<>> },
        t \in { Unparsable,
                Timestamp(StartClock - 2 * SECONDS_PER_DAY + 5),
                Timestamp(StartClock - 3600),
                Timestamp(StartClock + 3600) } }

FilterChannelItems == { [subscriberCount |-> n] : n \in {0, 1000, 10000} }

FilterPlatform ==
    [videos |-> {"A"}, max_hits |-> MaxHits,
     search_errors |-> {"ConnectionError"},
     video_items |-> FilterVideoItems, channel_items |-> FilterChannelItems,
     request_seconds |-> {1}, local_seconds |-> {0, 5}, sleep_seconds |-> {0}]

FilterInit ==
    /\ \E cfg \in FilterConfigs :
         RunStart(<<"k1">>, cfg, FilterPlatform, StartClock)
    /\ probe = NoProbe

FilterSpec == FilterInit /\ [][Next]_vars

(***************************************************************************)
(* One keyword and three videos whose rows rank differently                *)
(***************************************************************************)
\* three videos as the platform may report them, on a channel of 1000
\* subscribers: 5000 views in 2 days (score 100.0), 100000 views in 2 days
\* (score 100.0), 6000 views in 10 days (score 80.0)
RankVideoItems ==
    { [viewCount |-> v[1], likeCount |-> 230, commentCount |-> 20,
       duration |-> <<"P", "T", "5", "8", "S">>,
       publishedAt |-> Timestamp(StartClock - v[2] * SECONDS_PER_DAY - 3600)] :
        v \in { <<5000, 2>>, <<100000, 2>>, <<6000, 10>> } }

RankPlatform ==
    [videos |-> {"A", "B", "C"}, max_hits |-> MaxHits + 1,
     search_errors |-> {"ConnectionError"},
     video_items |-> RankVideoItems, channel_items |-> ChannelItems,
     request_seconds |-> {1}, local_seconds |-> {0}, sleep_seconds |-> {0}]

RankInit ==
    /\ RunStart(<<"k1">>, DefaultConfig, RankPlatform, StartClock)
    /\ probe = NoProbe

RankSpec == RankInit /\ [][Next]_vars

(***************************************************************************)
(* A session: the key entered or changed, the search button pressed again  *)
(***************************************************************************)
MaxRuns == 3

\* the seconds between the end of a run and the next press of the button
\* (rerun_seconds of the platform): half of the caches' ttl, and the ttl
RerunDelays == {TTL \div 2, TTL - 3}

\* what a run shows: the ranked rows, or nothing but the "No videos matched"
\* warning
RunResult(rows) == IF rows # <<>> THEN sort_values(rows) ELSE <<>>

\* the history entry of a run that is over
RunRecord ==
    [at |-> now, start_date |-> start_date, keywords |-> keywords,
     config |-> config, all_rows |-> all_rows, results |-> RunResult(all_rows)]

\* the keys a user may type
ApiKeys == {"key", "key2"}

\* The page is what the last run that reached line 533 rendered: with a key,
\* "Change API Key" and the search button enabled; without one, the key's
\* text input and the search button disabled (disabled=not api_key).  A run
\* that st.rerun() ended at line 398 rendered no button, the page of the run
\* before it stays until the script has run again (pc = "rerun").

\* app.py:384-392: a key is typed into the text input; the script runs with
\* it, no button pressed
EnterApiKey ==
    /\ pc = "done"
    /\ ~search_enabled
    /\ \E user_key \in ApiKeys :
         LET sb == sidebar(secrets, session_state, user_key, FALSE)
         IN  /\ session_state' = sb.session
             /\ search_enabled' = ~Falsy(sb.api_key)
    /\ UNCHANGED <<keywords, config, platform, now, start_date, pc, idx,
                   all_rows, seen_video_ids, errors, videos, video_ids,
                   channel_ids, vid_details, vid_map, chan_map, v_idx,
                   search_cache, video_cache, channel_cache, calls, secrets,
                   runs, gateway_log, probe>>

\* app.py:393-398: "Change API Key" is pressed; the script runs up to
\* st.rerun(), which ends the run before the search button is rendered
ChangeApiKey ==
    /\ pc = "done"
    /\ search_enabled
    /\ LET sb == sidebar(secrets, session_state, "", TRUE)
       IN  /\ session_state' = sb.session
           /\ IF sb.rerun
              THEN pc' = "rerun" /\ UNCHANGED search_enabled
              ELSE pc' = pc /\ search_enabled' = ~Falsy(sb.api_key)
    /\ UNCHANGED <<keywords, config, platform, now, start_date, idx,
                   all_rows, seen_video_ids, errors, videos, video_ids,
                   channel_ids, vid_details, vid_map, chan_map, v_idx,
                   search_cache, video_cache, channel_cache, calls, secrets,
                   runs, gateway_log, probe>>

\* the run st.rerun() asked for: no widget has a value, search_btn is False
ScriptRerun ==
    /\ pc = "rerun"
    /\ LET sb == sidebar(secrets, session_state, "", FALSE)
       IN  /\ session_state' = sb.session
           /\ search_enabled' = ~Falsy(sb.api_key)
    /\ pc' = "done"
    /\ UNCHANGED <<keywords, config, platform, now, start_date, idx,
                   all_rows, seen_video_ids, errors, videos, video_ids,
                   channel_ids, vid_details, vid_map, chan_map, v_idx,
                   search_cache, video_cache, channel_cache, calls, secrets,
                   runs, gateway_log, probe>>

\* app.py:380-398, 530-561: the search button is pressed where the page
\* shows it enabled, also on the page a run ended by st.rerun() has left.
\* The script runs anew with search_btn True and the key get_api_key() gives
\* this run.  Without a key: st.error, no search (app.py:542-543).  With
\* one: the keyword list and the sidebar values are what they were, the date
\* floor is taken from the clock, all_rows, seen_video_ids and errors start
\* empty; the st.cache_data stores and st.session_state outlive the run.
Rerun ==
    /\ pc \in {"done", "rerun"}
    /\ search_enabled
    /\ LET sb == sidebar(secrets, session_state, "", FALSE)
       IN  /\ session_state' = sb.session
           /\ search_enabled' = ~Falsy(sb.api_key)
           /\ IF Falsy(sb.api_key)
              THEN /\ pc' = "done"
                   /\ UNCHANGED <<config, now, start_date, runs, idx, all_rows,
                                  seen_video_ids, errors, videos, video_ids,
                                  channel_ids, vid_details, vid_map, chan_map,
                                  v_idx, calls>>
              ELSE /\ Len(runs) + 1 < MaxRuns
                   /\ config' = [config EXCEPT !.api_key = sb.api_key]
                   /\ \E dt \in platform.rerun_seconds :
                        /\ now' = now + dt
                        /\ start_date' = now + dt - config.days * SECONDS_PER_DAY
                   /\ runs' = Append(runs, RunRecord)
                   /\ pc' = "search"
                   /\ idx' = 1
                   /\ all_rows' = <<>>
                   /\ seen_video_ids' = {}
                   /\ errors' = <<>>
                   /\ videos' = <<>>
                   /\ video_ids' = <<>>
                   /\ channel_ids' = <<>>
                   /\ vid_details' = NoCall
                   /\ vid_map' = <<>>
                   /\ chan_map' = <<>>
                   /\ v_idx' = 1
                   /\ calls' = <<>>
    /\ UNCHANGED <<keywords, platform, search_cache, video_cache,
                   channel_cache, secrets, gateway_log, probe>>

\* one video that clears the default filters, a little less than two days
\* old at the first run
SessionVideoItems ==
    { [viewCount |-> 5000, likeCount |-> 230, commentCount |-> 20,
       duration |-> <<"P", "T", "5", "8", "S">>,
       publishedAt |-> Timestamp(StartClock - 2 * SECONDS_PER_DAY + 900)] }

SessionPlatform ==
    [videos |-> {"A"}, max_hits |-> 1,
     search_errors |-> {"ConnectionError"},
     video_items |-> SessionVideoItems, channel_items |-> ChannelItems,
     request_seconds |-> {1}, local_seconds |-> {0}, sleep_seconds |-> {0, 1},
     rerun_seconds |-> RerunDelays]

\* a keyword, alone or entered a second time as a custom keyword
SessionKeywordLists == { <<"k1">>, <<"k1", "k1">> }

\* a session whose key stands in st.secrets and in which only the search
\* button is pressed
SessionInit ==
    /\ \E kws \in SessionKeywordLists :
         RunStart(kws, DefaultConfig, SessionPlatform, StartClock)
    /\ probe = NoProbe

SessionNext == Next \/ Rerun

SessionSpec == SessionInit /\ [][SessionNext]_vars

\* a session in which the key may be changed between the runs; the button
\* is pressed half the caches' ttl after a run
KeyPlatform ==
    [videos |-> {"A"}, max_hits |-> 1,
     search_errors |-> {"ConnectionError"},
     video_items |-> SessionVideoItems, channel_items |-> ChannelItems,
     request_seconds |-> {1}, local_seconds |-> {0}, sleep_seconds |-> {0},
     rerun_seconds |-> {TTL \div 2}]

\* the first run: its key stands in st.secrets, or it was typed into the
\* sidebar
KeyInit ==
    /\ RunBegin(<<"k1">>, DefaultConfig, KeyPlatform, StartClock)
    /\ \/ /\ secrets = SecretsWith(DefaultConfig.api_key)
          /\ session_state = <<>>
       \/ /\ secrets = <<>>
          /\ session_state = set_api_key(<<>>, DefaultConfig.api_key)
    /\ search_enabled = TRUE
    /\ probe = NoProbe

KeyNext == Next \/ Rerun \/ EnterApiKey \/ ChangeApiKey \/ ScriptRerun

KeySpec == KeyInit /\ [][KeyNext]_vars

(***************************************************************************)
(* The metric functions on their own                                       *)
(***************************************************************************)
\* no run in progress
Idle ==
    /\ keywords = <<>>
    /\ config = DefaultConfig
    /\ platform = Platform
    /\ now = StartClock
    /\ start_date = StartClock
    /\ pc = "idle"
    /\ idx = 1
    /\ all_rows = <<>>
    /\ seen_video_ids = {}
    /\ errors = <<>>
    /\ videos = <<>>
    /\ video_ids = <<>>
    /\ channel_ids = <<>>
    /\ vid_details = NoCall
    /\ vid_map = <<>>
    /\ chan_map = <<>>
    /\ v_idx = 1
    /\ search_cache = <<>>
    /\ video_cache = <<>>
    /\ channel_cache = <<>>
    /\ calls = <<>>
    /\ session_state = <<>>
    /\ secrets = <<>>
    /\ search_enabled = FALSE
    /\ runs = <<>>
    /\ gateway_log = <<>>

\* with the triples whose exact score lies half way between two tenths:
\* (1, 1, 1) is 10.05, (1, 3, 3) is 3.35, (1, 4, 1) is 2.55, (1, 30, 3) is 0.35
ViralityViews == {0, 1, 20, 500, 4999, 5000, 99999, 500000}

ViralitySubs == {0, 1, 3, 4, 30, 1000, 30000}

ViralityDays == {0, 1, 3, 5, 30}

MetricInit ==
    /\ Idle
    /\ \E v \in ViralityViews, s \in ViralitySubs, d \in ViralityDays :
         probe = [fn |-> "calculate_virality_score", args |-> <<v, s, d>>,
                  done |-> FALSE, out |-> 0]

\* score = calculate_virality_score(views, subs, days_old)
ApplyVirality ==
    /\ probe.fn = "calculate_virality_score"
    /\ ~probe.done
    /\ probe' = [probe EXCEPT !.done = TRUE,
                              !.out = calculate_virality_score(
                                        probe.args[1], probe.args[2],
                                        probe.args[3])]
    /\ UNCHANGED pipeVars

MetricNext == ApplyVirality

MetricSpec == MetricInit /\ [][MetricNext]_vars

(***************************************************************************)
(* The duration codec on its own                                           *)
(***************************************************************************)
PT == <<"P", "T">>

\* a component of an ISO 8601 duration: the number n, then the unit
Component(n, unit) == Decimal(n) \o <<unit>>

\* what may stand before the components: nothing (the absent key's ""), the
\* time designator, and prefixes that are not "PT"
DurationPrefixes == { <<>>, PT, <<"P">>, <<"p", "t">>, <<"P", "1", "D", "T">> }

HourParts == { <<>>, Component(1, "H") }

\* n zeros
Zeros(n) == [i \in 1..n |-> "0"]

\* with a number written in ARABIC-INDIC digits, and the number 5 written
\* with as many digits as int() converts, and with one digit more
MinuteParts ==
    { <<>>, <<"0", "2", "M">>, <<"U+0663", "M">>,
      Zeros(INT_MAX_STR_DIGITS - 1) \o <<"5", "M">>,
      Zeros(INT_MAX_STR_DIGITS) \o <<"5", "M">> }
      \cup {Component(n, "M") : n \in {0, 1, 2, 10, 100}}

\* with numbers that hold an ARABIC-INDIC and a FULLWIDTH digit, and the
\* number 7 written with one digit more than int() converts
SecondParts ==
    { <<>>, <<"0", "5", "S">>, <<"1", "U+0663", "S">>, <<"U+FF15", "S">>,
      Zeros(INT_MAX_STR_DIGITS) \o <<"7", "S">> }
      \cup {Component(n, "S") : n \in {0, 3, 30, 45, 59, 90}}

\* the strings the codec is applied to: prefix, hours, minutes, seconds, and
\* the same with the seconds before the minutes
DurationStrings ==
    { p \o h \o m \o s : p \in DurationPrefixes, h \in HourParts,
                         m \in MinuteParts, s \in SecondParts }
      \cup { PT \o s \o m : m \in MinuteParts, s \in SecondParts }

CodecInit ==
    /\ Idle
    /\ \E s \in DurationStrings :
         probe = [fn |-> "parse_duration", args |-> <<s>>, done |-> FALSE,
                  out |-> [seconds |-> 0, display |-> <<>>]]

\* "Duration": parse_duration(d), duration_sec = parse_duration_seconds(d)
ApplyDuration ==
    /\ probe.fn = "parse_duration"
    /\ ~probe.done
    /\ probe' = [probe EXCEPT
                   !.done = TRUE,
                   !.out = [seconds |-> parse_duration_seconds(probe.args[1]),
                            display |-> parse_duration(probe.args[1])]]
    /\ UNCHANGED pipeVars

CodecNext == ApplyDuration

CodecSpec == CodecInit /\ [][CodecNext]_vars

(***************************************************************************)
(* The idea angle on its own                                               *)
(***************************************************************************)
\* a title of n characters, the character at a place telling the place
TitleOfLength(n) == [i \in 1..n |-> DigitChar(i % 10)]

Titles == {TitleOfLength(n) : n \in {0, 12, 49, 50, 51, 60}}

AngleViews == {0, 5000, 100000, 100001, 1000000, 1000001}

\* engagement rates in hundredths of a percent
AngleEngagements == {0, 500, 501, 1250}

AngleInit ==
    /\ Idle
    /\ \E t \in Titles, v \in AngleViews, e \in AngleEngagements :
         probe = [fn |-> "generate_idea_angle",
                  args |-> <<t, "Fitness", v, e>>, done |-> FALSE,
                  out |-> <<>>]

\* "Idea Angle": generate_idea_angle(title, niche, views, engagement_rate)
ApplyIdeaAngle ==
    /\ probe.fn = "generate_idea_angle"
    /\ ~probe.done
    /\ probe' = [probe EXCEPT
                   !.done = TRUE,
                   !.out = generate_idea_angle(probe.args[1], probe.args[2],
                                               probe.args[3], probe.args[4])]
    /\ UNCHANGED pipeVars

AngleNext == ApplyIdeaAngle

AngleSpec == AngleInit /\ [][AngleNext]_vars

(***************************************************************************)
(* Properties of the keyword loop.  They read the history in calls: pass i *)
(* is the loop body run for keywords[i].                                   *)
(***************************************************************************)
Passes == 1..Len(calls)

\* the search of pass i returned video v
Returned(i, v) == \E k \in 1..Len(Items(calls[i].search)) :
                     Items(calls[i].search)[k].videoId = v

\* the first pass whose search returned v
FirstPass(v) ==
    CHOOSE i \in Passes : Returned(i, v) /\ \A j \in 1..(i - 1) : ~Returned(j, v)

\* the pass that appended row k
PassOfRow(k) ==
    CHOOSE i \in Passes :
      /\ calls[i].rows_before < k
      /\ (i = Len(calls) \/ calls[i + 1].rows_before >= k)

\* the positions of the rows of video v
RowsOf(v) == {k \in 1..Len(all_rows) : all_rows[k].VideoID = v}

\* pass i issued its detail fetches and one of them returned an error value
FetchFailed(i) ==
    /\ calls[i].video.kind # "none"
    /\ (IsError(calls[i].video) \/ IsError(calls[i].channel))

\* v was returned by the searches of two different keywords
ReturnedByTwoKeywords(v) ==
    \E i, j \in Passes : /\ calls[i].kw # calls[j].kw
                         /\ Returned(i, v)
                         /\ Returned(j, v)

\* C1: after the keyword loop no video id occurs in more than one row of
\* all_rows, whatever the search and detail responses were.
C1_NoVideoIdTwice ==
    pc = "done" =>
      \A i, j \in 1..Len(all_rows) :
        i # j => all_rows[i].VideoID # all_rows[j].VideoID

\* C2 as stated: a video id returned by the searches of two different
\* keywords has exactly one row, and that row's Keyword is the first keyword
\* whose search returned it.
C2_ExactlyOneRowFirstKeyword ==
    pc = "done" =>
      \A v \in platform.videos :
        ReturnedByTwoKeywords(v) =>
          /\ Cardinality(RowsOf(v)) = 1
          /\ \A k \in RowsOf(v) : all_rows[k].Keyword = calls[FirstPass(v)].kw

\* C2 as amended: every row of a video id was appended in the pass of the
\* first keyword, in list order, whose search returned the id, and carries
\* that keyword; no other pass appends a row for the id.
C2_RowsOnlyFromFirstKeyword ==
    \A k \in 1..Len(all_rows) :
      LET v == all_rows[k].VideoID
      IN  /\ \E i \in Passes : Returned(i, v)
          /\ PassOfRow(k) = FirstPass(v)
          /\ all_rows[k].Keyword = calls[FirstPass(v)].kw
          /\ all_rows[k].Keyword = keywords[FirstPass(v)]

C2_Witness ==
    /\ pc = "done"
    /\ \E v \in platform.videos : ReturnedByTwoKeywords(v) /\ RowsOf(v) # {}

\* C3: the new ids are in the seen-set when the detail fetches are issued,
\* and the ids of a pass whose detail fetch failed stay seen: no later pass
\* requests their details or appends a row for them.
C3_SeenBeforeFetch ==
    /\ pc \in {"video_details", "channel_stats"}
         => (video_ids # <<>> /\ Range(video_ids) \subseteq seen_video_ids)
    /\ \A i \in Passes :
         FetchFailed(i) =>
           \A v \in Range(calls[i].video_req) :
             /\ v \in seen_video_ids
             /\ \A j \in Passes : j > i => v \notin Range(calls[j].video_req)
             /\ \A k \in 1..Len(all_rows) :
                  k > calls[i].rows_before => all_rows[k].VideoID # v

C3_Witness ==
    /\ pc = "done"
    /\ \E i, j \in Passes :
         /\ i < j
         /\ FetchFailed(i)
         /\ \E v \in Range(calls[i].video_req) : Returned(j, v)

\* C4: a search that returns an error value appends exactly one warning with
\* the keyword and the message, issues no detail fetch, leaves the seen-set
\* and the rows as they were, and moves on to the next keyword.
C4_SearchErrorWarnsAndContinues ==
    /\ [](\A i \in Passes :
            IsError(calls[i].search) =>
              calls[i].video = NoCall /\ calls[i].channel = NoCall)
    /\ [][ ( /\ pc = "search"
             /\ idx <= Len(keywords)
             /\ Len(calls') = Len(calls) + 1
             /\ IsError(calls'[idx].search) )
           => ( /\ errors' = Append(errors, <<"Search error for", keywords[idx],
                                              calls'[idx].search.error>>)
                /\ seen_video_ids' = seen_video_ids
                /\ all_rows' = all_rows
                /\ video_cache' = video_cache
                /\ channel_cache' = channel_cache
                /\ idx' = idx + 1
                /\ pc' = "search" ) ]_vars

C4_Witness ==
    /\ pc = "done"
    /\ Len(errors) = 1
    /\ \E i \in Passes :
         /\ IsError(calls[i].search)
         /\ i < Len(calls)
         /\ Len(all_rows) > calls[i].rows_before

\* C5: a detail fetch that returns an error value ends the keyword's pass:
\* no row and no warning is added, the earlier rows stay, and the loop goes
\* on with the next keyword.
C5_DetailErrorSkipsSilently ==
    [][ ( /\ pc = "channel_stats"
          /\ pc' # pc
          /\ (IsError(calls'[idx].video) \/ IsError(calls'[idx].channel)) )
        => ( /\ all_rows' = all_rows
             /\ errors' = errors
             /\ seen_video_ids' = seen_video_ids
             /\ idx' = idx + 1
             /\ pc' = "search" ) ]_vars

C5_Witness ==
    /\ pc = "done"
    /\ errors = <<>>
    /\ \E i \in Passes :
         /\ FetchFailed(i)
         /\ calls[i].rows_before > 0
         /\ Len(all_rows) = calls[i].rows_before

\* C6: whatever the gateway answers, the loop handles each keyword once, in
\* list order, and the run completes after the last keyword.
C6_EveryKeywordOnceThenDone ==
    <>( /\ pc = "done"
        /\ Len(calls) = Len(keywords)
        /\ \A i \in Passes : calls[i].kw = keywords[i] )

C6_Witness ==
    /\ pc = "done"
    /\ Len(calls) = Len(keywords)
    /\ \E i \in Passes : IsError(calls[i].search)
    /\ \E i \in Passes : FetchFailed(i)

\* the channel of row k was in the channel-detail response of its pass
ChannelPresent(k) ==
    all_rows[k].ChannelID \in DOMAIN Items(calls[PassOfRow(k)].channel)

\* C7 as stated: every row belongs to a video whose channel detail was in
\* the channel-detail response of the keyword that produced the row.
C7_RowsHaveChannelDetail ==
    \A k \in 1..Len(all_rows) : ChannelPresent(k)

\* C7 as amended: a video whose channel id is absent from the channel-detail
\* response is not skipped but takes the defaults: a row's Channel Subs is
\* the count the response gave for its channel, or 0 when the channel is
\* absent, and then its Virality Score is 0 too.
C7_AbsentChannelCountsAsZero ==
    \A k \in 1..Len(all_rows) :
      IF ChannelPresent(k)
      THEN all_rows[k].ChannelSubs =
             Items(calls[PassOfRow(k)].channel)[all_rows[k].ChannelID].subscriberCount
      ELSE all_rows[k].ChannelSubs = 0 /\ all_rows[k].ViralityScore = 0

C7_Witness ==
    \E k \in 1..Len(all_rows) : ~ChannelPresent(k)

\* the number of rows when pass i was over
RowsAfter(i) ==
    IF i < Len(calls) THEN calls[i + 1].rows_before ELSE Len(all_rows)

\* the video ids of the rows pass i appended, in order
RowIdsOfPass(i) ==
    [k \in 1..(RowsAfter(i) - calls[i].rows_before) |->
       all_rows[calls[i].rows_before + k].VideoID]

\* score (in tenths) is a nearest tenth of
\* min(views/subs*10, 50) + min(views/days_old/1000*50, 50), for subs > 0
\* and days_old > 0
IsNearestTenth(score, views, subs, days_old) ==
    LET den == 2 * subs * days_old
        num == (IF views >= 5 * subs THEN 500 * den ELSE 200 * views * days_old)
                 + (IF views >= 1000 * days_old THEN 500 * den ELSE views * subs)
    IN  /\ 2 * (score * den - num) <= den
        /\ 2 * (num - score * den) <= den

\* the hit h of pass i, handled at clock, clears the duration range and the
\* four floors
Qualifies(h, i, clock) ==
    LET d    == Items(calls[i].video)[h.videoId]
        cmap == Items(calls[i].channel)
        subs == IF h.channelId \in DOMAIN cmap
                THEN cmap[h.channelId].subscriberCount ELSE 0
        dur  == parse_duration_seconds(d.duration)
        days == calculate_days_old(d.publishedAt, clock)
        eng  == calculate_engagement_rate(d.viewCount, d.likeCount,
                                          d.commentCount)
        vir  == calculate_virality_score(d.viewCount, subs, Max(days, 1))
    IN  /\ config.duration_range[1] <= dur
        /\ dur <= config.duration_range[2]
        /\ d.viewCount >= config.min_views
        /\ (config.max_subs = 0 \/ subs <= config.max_subs)
        /\ eng >= config.min_engagement
        /\ vir >= 10 * config.min_virality

\* the video ids of the hits of pass i, from hit k on, that have a detail
\* and qualify at the clock the loop handled them
RECURSIVE QualifyingIds(_, _)
QualifyingIds(i, k) ==
    LET hits == Items(calls[i].search)
    IN  IF k > Len(hits) THEN <<>>
        ELSE (IF /\ hits[k].videoId \in DOMAIN Items(calls[i].video)
                 /\ Qualifies(hits[k], i, calls[i].clocks[k])
              THEN <<hits[k].videoId>> ELSE <<>>)
               \o QualifyingIds(i, k + 1)

\* C8: a hit whose video id is in the video-detail map yields a row if and
\* only if its duration is in the configured inclusive range, its views are
\* at least the floor, the subscriber ceiling is 0 or not exceeded, and its
\* engagement rate and virality score are at least their floors.
C8_RowIffFiltersPass ==
    \A i \in Passes :
      i < idx =>
        RowIdsOfPass(i) =
          IF calls[i].video.kind = "ok" /\ calls[i].channel.kind = "ok"
          THEN QualifyingIds(i, 1)
          ELSE <<>>

C8_Witness ==
    /\ pc = "done"
    /\ config.min_views > 0
    /\ \E k \in 1..Len(all_rows) : all_rows[k].Views = config.min_views

\* C9 as stated: a row's Virality Score is the virality function of the
\* row's own Views, Channel Subs and Days Old, so it is 0 whenever Channel
\* Subs is 0 or Days Old is 0.
C9_ScoreZeroWhenSubsOrDaysZero ==
    \A k \in 1..Len(all_rows) :
      /\ (all_rows[k].ChannelSubs = 0 \/ all_rows[k].DaysOld = 0)
           => all_rows[k].ViralityScore = 0
      /\ all_rows[k].ViralityScore =
           calculate_virality_score(all_rows[k].Views, all_rows[k].ChannelSubs,
                                    all_rows[k].DaysOld)

\* C9 as amended: a row's Virality Score is the virality function of the
\* row's Views, Channel Subs and max(Days Old, 1); it is 0 whenever Channel
\* Subs is 0, and a row with Days Old 0 is scored as one day old.
C9_ScoreUsesAtLeastOneDay ==
    \A k \in 1..Len(all_rows) :
      LET r == all_rows[k]
      IN  IF r.ChannelSubs = 0 THEN r.ViralityScore = 0
          ELSE IsNearestTenth(r.ViralityScore, r.Views, r.ChannelSubs,
                              IF r.DaysOld >= 1 THEN r.DaysOld ELSE 1)

C9_Witness ==
    \E k \in 1..Len(all_rows) :
      /\ all_rows[k].DaysOld = 0
      /\ all_rows[k].ChannelSubs > 0
      /\ all_rows[k].ViralityScore > 0

\* C10: for non-negative views, subs and days_old, calculate_virality_score
\* is 0 when subs = 0 or days_old = 0, otherwise min(views/subs*10, 50) +
\* min(views/days_old/1000*50, 50) rounded to one decimal; it lies in
\* [0, 100], neither term exceeds 50, and (500000, 1000, 5) gives 100.0.
C10_ViralityContract ==
    (probe.fn = "calculate_virality_score" /\ probe.done) =>
      LET views    == probe.args[1]
          subs     == probe.args[2]
          days_old == probe.args[3]
      IN  /\ (subs = 0 \/ days_old = 0) => probe.out = 0
          /\ (subs > 0 /\ days_old > 0) =>
               /\ IsNearestTenth(probe.out, views, subs, days_old)
               /\ FloatCmp[sub_ratio_score(views, subs), FloatOfInt[50]] <= 0
               /\ FloatCmp[velocity_score(views, days_old), FloatOfInt[50]] <= 0
          /\ 0 <= probe.out
          /\ probe.out <= 1000
          /\ probe.args = <<500000, 1000, 5>> => probe.out = 1000

C10_Witness ==
    /\ probe.fn = "calculate_virality_score"
    /\ probe.done
    /\ probe.args = <<500000, 1000, 5>>
    /\ probe.out = 1000

(***************************************************************************)
(* Properties of the duration codec                                        *)
(***************************************************************************)
\* the codec has been applied to probe.args[1]
DurationDone == probe.fn = "parse_duration" /\ probe.done

\* the number a component carries, however many digits it is written with;
\* 0 for a missing component
PartValue(part) ==
    IF part = <<>> THEN 0
    ELSE LET z == LeadingZeros(part, 1, Len(part) - 1)
         IN  DigitsValue(part, 1 + z, Len(part) - 1 - z)

\* the codec has returned its two values, no exception has left it
CodecReturned ==
    probe.out.seconds # ValueError /\ probe.out.display # ValueErrorRaised

\* a number as it stands in MM:SS, two digits at least
TwoDigits(n) ==
    IF n < 100 THEN <<DigitChar(n \div 10), DigitChar(n % 10)>> ELSE Decimal(n)

\* C11: the codec returns a value for every string; 0 seconds and "00:00" for
\* the empty string and for one that does not start with PT; 60*n_M + n_S
\* seconds and the zero-padded MM:SS of n_M and n_S for PT[nM][nS], a missing
\* component counting as 0; PT1M30S gives 90 / "01:30", PT45S gives 45 /
\* "00:45", PT2M gives 120 / "02:00".
C11_DurationCodec ==
    DurationDone =>
      LET s == probe.args[1]
      IN  /\ CodecReturned
          /\ (Len(s) < 2 \/ SubSeq(s, 1, 2) # PT) =>
               probe.out = [seconds |-> 0, display |-> <<"0", "0", ":", "0", "0">>]
          /\ \A m \in MinuteParts, sp \in SecondParts :
               s = PT \o m \o sp =>
                 /\ probe.out.seconds = 60 * PartValue(m) + PartValue(sp)
                 /\ probe.out.display =
                      TwoDigits(PartValue(m)) \o <<":">> \o TwoDigits(PartValue(sp))
          /\ s = <<"P", "T", "1", "M", "3", "0", "S">> =>
               probe.out = [seconds |-> 90, display |-> <<"0", "1", ":", "3", "0">>]
          /\ s = <<"P", "T", "4", "5", "S">> =>
               probe.out = [seconds |-> 45, display |-> <<"0", "0", ":", "4", "5">>]
          /\ s = <<"P", "T", "2", "M">> =>
               probe.out = [seconds |-> 120, display |-> <<"0", "2", ":", "0", "0">>]

\* C12: a PT string that also carries an hour component decodes to the
\* seconds and the display of the same string without the hour component.
C12_HoursIgnored ==
    DurationDone =>
      \A h \in HourParts \ {<<>>}, m \in MinuteParts, sp \in SecondParts :
        probe.args[1] = PT \o h \o m \o sp =>
          probe.out = [seconds |-> parse_duration_seconds(PT \o m \o sp),
                       display |-> parse_duration(PT \o m \o sp)]

(***************************************************************************)
(* Properties of the ranked collection                                     *)
(***************************************************************************)
\* the one-to-one maps of 1..n onto itself
Perms(n) == {p \in [1..n -> 1..n] : \A i, j \in 1..n : i # j => p[i] # p[j]}

\* rows a and b have the same Virality Score and the same Views
SameKeys(a, b) == a.ViralityScore = b.ViralityScore /\ a.Views = b.Views

\* the run is over and has stored its ranked rows
RankedStored ==
    pc = "done" /\ all_rows # <<>> /\ "results_df" \in DOMAIN session_state

\* C13: the ranked collection is a permutation of the accumulated rows, by
\* Virality Score descending, then Views descending, and rows equal in both
\* keep the order they had in the accumulator.
C13_RankedStablePermutation ==
    /\ (pc = "done" /\ all_rows # <<>>) => "results_df" \in DOMAIN session_state
    /\ RankedStored =>
         LET df == session_state["results_df"]
             n  == Len(all_rows)
         IN  /\ Len(df) = n
             /\ \A i, j \in 1..n : i < j =>
                  \/ df[i].ViralityScore > df[j].ViralityScore
                  \/ /\ df[i].ViralityScore = df[j].ViralityScore
                     /\ df[i].Views >= df[j].Views
             /\ \E p \in Perms(n) :
                  /\ \A i \in 1..n : df[i] = all_rows[p[i]]
                  /\ \A i, j \in 1..n :
                       (i < j /\ SameKeys(df[i], df[j])) => p[i] < p[j]

\* three rows: two that tie on both keys, and one of a lower score with more
\* views than one of them, accumulated before them
C13_Witness ==
    /\ RankedStored
    /\ Len(all_rows) = 3
    /\ all_rows[1].ViralityScore < all_rows[2].ViralityScore
    /\ all_rows[1].Views > all_rows[2].Views
    /\ SameKeys(all_rows[2], all_rows[3])
    /\ all_rows[2].VideoID # all_rows[3].VideoID
    /\ session_state["results_df"] = <<all_rows[2], all_rows[3], all_rows[1]>>

(***************************************************************************)
(* Properties of a session                                                 *)
(***************************************************************************)
\* C14: a run whose configuration is that of an earlier run of the session,
\* made while the cache entries of the earlier run are within their ttl,
\* ends with the rows of the earlier run in the same order, whatever the
\* platform answers to a request.
C14_RerunSameRows ==
    pc = "done" =>
      \A r \in 1..Len(runs) :
        ( /\ runs[r].keywords = keywords
          /\ runs[r].config = config
          /\ now - runs[r].at < TTL )
        => RunResult(all_rows) = runs[r].results

\* calls i and j of the log are calls of the same gateway function with the
\* same argument tuple
SameCall(i, j) ==
    gateway_log[i].op = gateway_log[j].op /\ gateway_log[i].key = gateway_log[j].key

\* call i came before call j, with the same function and arguments, less
\* than the expiry before it
EarlierWithinExpiry(i, j) ==
    /\ i < j
    /\ SameCall(i, j)
    /\ gateway_log[j].at - gateway_log[i].at < TTL

\* call i came before call j, with the same function and arguments, sent a
\* request and stored its value less than the expiry before call j
StoredWithinExpiry(i, j) ==
    /\ i < j
    /\ SameCall(i, j)
    /\ gateway_log[i].http
    /\ gateway_log[j].at - gateway_log[i].stored < TTL

\* C15 as stated: a gateway call whose argument tuple equals that of an
\* earlier call made less than 3600 s before it sends no request and returns
\* the value the earlier call returned, a response or an error value alike.
C15_HitWithinExpiryOfAnyCall ==
    \A i, j \in 1..Len(gateway_log) :
      EarlierWithinExpiry(i, j) =>
        /\ ~gateway_log[j].http
        /\ gateway_log[j].val = gateway_log[i].val

\* C15 as amended: the expiry of an entry runs from the instant the call
\* that sent the request stored the value, and a hit does not renew it.  A
\* gateway call sends no request exactly when an earlier call with the same
\* argument tuple sent one and stored its value less than 3600 s before, and
\* then it returns the value of that call, a response or an error value
\* alike; every call returns a value.
C15_ReadThroughCache ==
    \A j \in 1..Len(gateway_log) :
      /\ gateway_log[j].val.kind \in {"error", "noitems", "items", "ok"}
      /\ gateway_log[j].http =
           ~(\E i \in 1..Len(gateway_log) : StoredWithinExpiry(i, j))
      /\ \A i \in 1..Len(gateway_log) :
           StoredWithinExpiry(i, j) => gateway_log[j].val = gateway_log[i].val

\* an error value of the detail fetch served again from the cache in a later
\* run, a search served from the cache for a keyword entered twice, and a
\* call served from the cache 3600 s after the call that sent the request,
\* whose value was stored less than 3600 s before
C15_Witness ==
    /\ \E i, j \in 1..Len(gateway_log) :
         /\ StoredWithinExpiry(i, j)
         /\ gateway_log[i].op = "videos"
         /\ IsError(gateway_log[i].val)
         /\ gateway_log[i].at < gateway_log[j].at
         /\ ~gateway_log[j].http
         /\ gateway_log[j].val = gateway_log[i].val
    /\ \E i, j \in 1..Len(gateway_log) :
         /\ EarlierWithinExpiry(i, j)
         /\ gateway_log[i].op = "search"
         /\ ~gateway_log[j].http
    /\ \E i, j \in 1..Len(gateway_log) :
         /\ StoredWithinExpiry(i, j)
         /\ gateway_log[j].at - gateway_log[i].at >= TTL
         /\ ~gateway_log[j].http

(***************************************************************************)
(* Properties of the idea angle                                            *)
(***************************************************************************)
AngleDone == probe.fn = "generate_idea_angle" /\ probe.done

FormatPhrases == {"VIRAL format", "High-performing format", "trending format"}

\* the format phrases in the text
FormatPhrasesIn(text) == {text[i] : i \in 1..Len(text)} \cap FormatPhrases

\* the text between "Study: '" and the closing "...'"
TitlePart(text) ==
    LET from == CHOOSE i \in 1..Len(text) : text[i] = "'. Study: '"
    IN  SubSeq(text, from + 1, Len(text) - 1)

\* the text from the hook on is the hook, the niche and the title part
AngleIs(text, hook, niche, title_part) ==
    text = <<"Recreate this ">> \o hook \o <<" for '", niche, "'. Study: '">>
             \o title_part
             \o <<"...' - Adapt the hook structure, change the examples, maintain similar pacing.">>

\* C16 as stated: the text holds exactly one format phrase, "VIRAL format"
\* for views > 1,000,000, else "High-performing format" for views > 100,000,
\* else "trending format"; "high engagement hook" follows it if and only if
\* the engagement rate is above 5; the title is cut to 50 characters.
C16_OneFormatPhraseByViews ==
    AngleDone =>
      LET title      == probe.args[1]
          views      == probe.args[3]
          engagement == probe.args[4]
          phrase     == IF views > 1000000 THEN "VIRAL format"
                        ELSE IF views > 100000 THEN "High-performing format"
                        ELSE "trending format"
      IN  /\ FormatPhrasesIn(probe.out) = {phrase}
          /\ (\E i \in 1..Len(probe.out) : probe.out[i] = "high engagement hook")
               <=> engagement > 500
          /\ TitlePart(probe.out) = SubSeq(title, 1, Min(Len(title), 50))

\* C16 as amended: "trending format" stands only when neither hook applies.
\* The hook text is the views phrase ("VIRAL format" for views > 1,000,000,
\* "High-performing format" for views > 100,000, none at or below 100,000)
\* and "high engagement hook" when the engagement rate is above 5, joined by
\* ", " when both are there; it is "trending format" when there is neither.
\* The title is cut to its first 50 characters.
C16_TrendingOnlyWithoutHooks ==
    AngleDone =>
      LET title      == probe.args[1]
          niche      == probe.args[2]
          views      == probe.args[3]
          engagement == probe.args[4]
          cut        == [i \in 1..(IF Len(title) > 50 THEN 50 ELSE Len(title))
                           |-> title[i]]
          hook == CASE views > 1000000 /\ engagement > 500 ->
                         <<"VIRAL format", ", ", "high engagement hook">>
                    [] views > 1000000 /\ engagement <= 500 ->
                         <<"VIRAL format">>
                    [] views <= 1000000 /\ views > 100000 /\ engagement > 500 ->
                         <<"High-performing format", ", ", "high engagement hook">>
                    [] views <= 1000000 /\ views > 100000 /\ engagement <= 500 ->
                         <<"High-performing format">>
                    [] views <= 100000 /\ engagement > 500 ->
                         <<"high engagement hook">>
                    [] views <= 100000 /\ engagement <= 500 ->
                         <<"trending format">>
      IN  AngleIs(probe.out, hook, niche, cut)

\* few views, an engagement rate above 5 and a title of more than 50
\* characters: the hook alone, no format phrase, the title cut
C16_Witness ==
    /\ AngleDone
    /\ probe.args[3] <= 100000
    /\ probe.args[4] > 500
    /\ Len(probe.args[1]) > 50
    /\ FormatPhrasesIn(probe.out) = {}
    /\ \E i \in 1..Len(probe.out) : probe.out[i] = "high engagement hook"
    /\ Len(TitlePart(probe.out)) = 50

(***************************************************************************)
(* Properties of the session-held results                                  *)
(***************************************************************************)
\* the runs of the session that are over and ended with rows
RunsWithRows == {r \in 1..Len(runs) : runs[r].all_rows # <<>>}

\* the last of them
LastRunWithRows == CHOOSE r \in RunsWithRows : \A q \in RunsWithRows : q <= r

\* what the session holds of the results
ResultsHeld(session) ==
    [k \in DOMAIN session \cap {"results_df", "search_completed"} |-> session[k]]

\* C17: st.session_state.results_df and search_completed are written only at
\* the end of a run that has at least one row, and then hold the ranked rows
\* of that run; a run that ends with no row leaves the session as it was, and
\* the analytics view then reads the rows of the last run that had rows.
C17_ResultsWrittenOnlyWithRows ==
    /\ [][ ResultsHeld(session_state') # ResultsHeld(session_state) =>
             /\ pc = "search" /\ pc' = "done"
             /\ all_rows # <<>>
             /\ session_state'["results_df"] = sort_values(all_rows)
             /\ session_state'["search_completed"] = TRUE ]_vars
    /\ [][ (pc = "search" /\ pc' = "done" /\ all_rows = <<>>) =>
             /\ session_state' = session_state
             /\ analytics_df(session_state') = analytics_df(session_state) ]_vars
    /\ []( (pc = "done" /\ all_rows = <<>>) =>
             IF RunsWithRows = {} THEN ResultsHeld(session_state) = <<>>
             ELSE /\ session_state["search_completed"] = TRUE
                  /\ analytics_df(session_state) = runs[LastRunWithRows].results )

\* a run with rows, then a run without: the view still reads the first run
C17_Witness ==
    /\ pc = "done"
    /\ all_rows = <<>>
    /\ Len(runs) = 1
    /\ runs[1].all_rows # <<>>
    /\ analytics_df(session_state) = runs[1].results
    /\ Len(analytics_df(session_state)) >= 1

====
